---- MODULE Spec2Model ----
(***************************************************************************)
(* Model of db_actions.go (package db_actions): a Barnes-Hut quadtree kept *)
(* in two relational tables, "stars" and "nodes".                          *)
(*                                                                         *)
(* The state is the content of the two tables, of their id sequences and   *)
(* the tables' columns (schema).  Every query is its own transaction and   *)
(* no lock is taken: a function that writes is modelled statement by       *)
(* statement, one action per SQL statement, with the locals of the call    *)
(* in progress kept in "running".  A call that ends in a panic or in       *)
(* log.Fatalf leaves behind the rows it wrote before.                      *)
(*                                                                         *)
(* Numbers: widths, masses and velocities are integers, for which the "%f" *)
(* formatting of the queries is exact; positions are fractions, a float64  *)
(* being held as the fraction it is nearest to (Side).  Widths are even,   *)
(* so the one halving a reachable subdivide computes is exact              *)
(* (HalvingExact).                                                         *)
(***************************************************************************)
EXTENDS Integers, Sequences, FiniteSets, TLC

\* ---------------------------------------------------------------- bounds
MaxStars == 4        \* rows the stars sequence may hand out
MaxNodes == 10       \* rows the nodes sequence may hand out
MaxIndex == 2        \* tree indexes a caller passes are 1..MaxIndex
MaxDepth == 4        \* recursion depth explored in insertIntoTree
MaxRoot  == 300      \* square roots are taken of numbers below MaxRoot^2
MaxCallers == 2      \* calls that may be in progress at a time
MaxCalls == 2        \* calls the overlapping callers make in all
MaxSetupStars == 2   \* stars inserted before the overlapping callers begin

DefaultWidth == 1000 \* InsertStar: NewTree(db, 1000)

\* the stars callers insert: position and mass (velocity 0)
StarInputs == {<<100, 100, 1>>, <<0, 5, 3>>}
Widths    == {1000, 16}
Indexes   == 1..MaxIndex

\* the *sql.DB handle the callers of GetStar pass: nil
NilDB == "nil"

VARIABLES
    stars,      \* table stars: star_id -> [x, y, vx, vy, m]
    star_seq,   \* last value of stars_star_id_seq
    nodes,      \* table nodes: node_id -> row
    node_seq,   \* last value of nodes_node_id_seq
    schema,     \* which of the two tables exist, and with which columns
    last,       \* the call that ended last, how it ended, NewTree's width; no
                \* call has begun since
    called,     \* history: the InsertStar calls made, [sid, index, status, star]
    massFresh,  \* history: indexes whose UpdateTotalMass completed after the
                \* last change of their tree
    comRun,     \* history: indexes of massFresh on which UpdateCenterOfMass
                \* was called after that
    running,    \* the calls in progress, statement by statement:
                \* caller -> its locals and the statement it is at
    ncalls      \* history: the calls made by callers that do not wait for
                \* one another

vars == <<stars, star_seq, nodes, node_seq, schema, last, called, massFresh,
          comRun, running, ncalls>>

\* ------------------------------------------------------------ the tables
\* schema.stars: "absent", or "created" (InitStarsTable's columns, the ones
\* the queries on stars name).  schema.nodes: "absent", "created"
\* (InitNodesTable's columns) or "deployed" (the columns the queries name:
\* subnode and timestep among them, every column with a default).
NoTables == [stars |-> "absent", nodes |-> "absent"]

DeployedTables == [stars |-> "created", nodes |-> "deployed"]

\* a SELECT without ORDER BY returns its rows in an order SQL leaves open;
\* scan lists, per table, ids in the order a statement finds them (the ids
\* it does not list follow by ascending id)
NoScan == [stars |-> <<>>, nodes |-> <<>>]

DB(s, ss, n, ns, sch) ==
    [stars |-> s, star_seq |-> ss, nodes |-> n, node_seq |-> ns,
     schema |-> sch, scan |-> NoScan]

Cur == DB(stars, star_seq, nodes, node_seq, schema)

HasStars(D) == D.schema.stars # "absent"

HasNodes(D) == D.schema.nodes # "absent"

FullNodes(D) == D.schema.nodes = "deployed"

\* f with the row id set to row (INSERT of a new id, or UPDATE of a row)
Put(f, id, row) == [k \in DOMAIN f \cup {id} |-> IF k = id THEN row ELSE f[k]]

EmptyTable == [k \in {} |-> 0]

\* F applied to the value of v, with v evaluated once: the value a Go local
\* holds after its assignment
With(v, F(_)) == CHOOSE r \in {F(x) : x \in {v}} : TRUE

\* a float that may be NaN or a fraction: n/d in lowest terms, d > 0;
\* d = 0 is NaN (n = 0) or an infinity (n = 1, n = -1)
RECURSIVE Gcd(_, _)
Gcd(a, b) == IF b = 0 THEN a ELSE Gcd(b, a % b)

Abs(a) == IF a < 0 THEN -a ELSE a

Sgn(a) == IF a < 0 THEN -1 ELSE IF a = 0 THEN 0 ELSE 1

Frac(n, d) ==
    IF d = 0 THEN [n |-> Sgn(n), d |-> 0]
    ELSE LET g == Gcd(Abs(n), Abs(d))
         IN  [n |-> Sgn(d) * (n \div g), d |-> Abs(d) \div g]

Flt(v) == [n |-> v, d |-> 1]

NaN == [n |-> 0, d |-> 0]

Zero2 == <<Flt(0), Flt(0)>>

\* x != 0 of a float64: true of NaN and of the infinities
FNonZero(f) == f.d = 0 \/ f.n # 0

FNeg(a) == [n |-> -a.n, d |-> a.d]

FIsNaN(a) == a.d = 0 /\ a.n = 0

\* a number, no NaN and no infinity
Finite(a) == a.d # 0

\* a < b of two float64: false when either is NaN
FLess(a, b) ==
    /\ ~FIsNaN(a)
    /\ ~FIsNaN(b)
    /\ IF a.d # 0 /\ b.d # 0 THEN a.n * b.d < b.n * a.d
       ELSE IF a.d = 0 THEN a.n < 0 /\ (b.d # 0 \/ b.n > 0)
       ELSE b.n > 0

FAdd(a, b) ==
    IF a.d = 0 /\ b.d = 0 THEN (IF a.n = b.n THEN a ELSE NaN)
    ELSE IF a.d = 0 THEN a
    ELSE IF b.d = 0 THEN b
    ELSE Frac(a.n * b.d + b.n * a.d, a.d * b.d)

FMul(a, b) ==
    IF a.d = 0 \/ b.d = 0
    THEN (IF (a.d = 0 /\ a.n = 0) \/ (b.d = 0 /\ b.n = 0) \/ a.n = 0 \/ b.n = 0
          THEN NaN ELSE [n |-> Sgn(a.n) * Sgn(b.n), d |-> 0])
    ELSE Frac(a.n * b.n, a.d * b.d)

FDiv(a, b) ==
    IF a.d = 0 /\ b.d = 0 THEN NaN
    ELSE IF a.d = 0 THEN (IF b.n < 0 THEN [n |-> -a.n, d |-> 0] ELSE a)
    ELSE IF b.d = 0 THEN (IF b.n = 0 THEN NaN ELSE Flt(0))
    ELSE Frac(a.n * b.d, a.d * b.n)

\* a float64 holds n/d exactly when d is a power of two (n is small)
RECURSIVE IsPowerOfTwo(_)
IsPowerOfTwo(d) == d = 1 \/ (d % 2 = 0 /\ IsPowerOfTwo(d \div 2))

RECURSIVE BitLen(_)
BitLen(i) == IF i = 0 THEN 0 ELSE 1 + BitLen(i \div 2)

\* what is left of r/d after k more binary digits
RECURSIVE BinaryTail(_, _, _)
BinaryTail(r, d, k) == IF k = 0 THEN r ELSE BinaryTail((2 * r) % d, d, k - 1)

\* what is left of r/d, 0 < r < d, after its first binary digit 1
RECURSIVE AfterLeadingOne(_, _)
AfterLeadingOne(r, d) == IF 2 * r >= d THEN 2 * r - d ELSE AfterLeadingOne(2 * r, d)

\* the float64 nearest to n/d (n > 0, d no power of two) lies above n/d: the
\* digits after the 53rd significant binary digit are more than a half
FloatAbove(n, d) ==
    LET i    == n \div d
        tail == IF i > 0 THEN BinaryTail(n % d, d, 53 - BitLen(i))
                ELSE BinaryTail(AfterLeadingOne(n % d, d), d, 52)
    IN  2 * tail > d

\* the side of a.n/a.d the float64 a stands for lies on, by magnitude: above
\* (1), on it (0) or below (-1).  A float64 is held as the fraction it is
\* nearest to; one that comes out of a division of float64s is held with its
\* side, since it need not be the nearest.
Side(a) ==
    IF "side" \in DOMAIN a THEN a.side
    ELSE IF IsPowerOfTwo(a.d) THEN 0
    ELSE IF FloatAbove(Abs(a.n), a.d) THEN 1 ELSE -1

\* fmt.Sprintf("%f", v): the six decimals nearest to the float64 v, a v half
\* way between two taking the even one; then read back by the numeric
\* column.  A fraction that is half way and is no float64 goes to the side
\* on which v lies.
Fmt6(a) ==
    IF a.d = 0 THEN [n |-> a.n, d |-> 0]
    ELSE LET s   == Abs(a.n) * 1000000
             q   == s \div a.d
             rem == s % a.d
             up  == IF 2 * rem # a.d THEN 2 * rem > a.d
                    ELSE IF Side(a) = 0 THEN q % 2 = 1
                    ELSE Side(a) = 1
         IN  Frac(Sgn(a.n) * (IF up THEN q + 1 ELSE q), 1000000)

\* ------------------------------------------------------------------ rows
\* a row of nodes as INSERT leaves it: the columns an INSERT does not name
\* take the column default (0, {0,0}, {0,0,0,0})
NodeRow(cx, cy, w, depth, rootID, timestep) ==
    [ box_center     |-> <<cx, cy>>,
      box_width      |-> w,
      depth          |-> depth,
      isleaf         |-> TRUE,
      star_id        |-> 0,
      root_id        |-> rootID,
      timestep       |-> timestep,
      subnode        |-> <<0, 0, 0, 0>>,
      total_mass     |-> 0,
      center_of_mass |-> Zero2 ]

Star2D(in) == [x |-> Flt(in[1]), y |-> Flt(in[2]), vx |-> 0, vy |-> 0, m |-> in[3]]

\* the stars callers pass to CalcAllForces: an inserted one as inserted, the
\* other with another value in a velocity slot
Probes == {Star2D(<<100, 100, 1>>), [Star2D(<<0, 5, 3>>) EXCEPT !.vx = 1]}

\* the tree the callers that do not wait for one another work on, and the
\* star they ask the force on
Shared == {1}

SharedProbes == {Star2D(<<100, 100, 1>>)}

\* the theta values callers pass: 0.5, 1000 and +Inf
Thetas == {Frac(1, 2), Flt(1000), Frac(1, 0)}

\* fields of the records of a .csv file, as sequences of characters; the
\* records, of an x and a y field; the files InsertList is given: one or two
\* records
Hundred == <<"1", "0", "0", "0", "0", "0", "0", "0">>

Five == <<"5", "0", "0", "0", "0", "0">>

MinusThree == <<"-", "3", "0", "0", "0", "0", "0">>

\* 0.55 / 100000 and 100.05 / 100000 are half way between two numbers of six
\* decimals
FiftyFiveHundredths == <<"0", ".", "5", "5">>

HundredAndFiveHundredths == <<"1", "0", "0", ".", "0", "5">>

NoNumber == <<"a", "b", "c">>

\* out of the range of a float64
TwoE308 == <<"2", "e", "3", "0", "8">>

Records == { <<Hundred, Five>>, <<MinusThree, FiftyFiveHundredths>>,
             <<NoNumber, HundredAndFiveHundredths>>, <<Hundred, NoNumber>>,
             <<TwoE308, Five>> }

Files == { <<rec>> : rec \in Records } \cup { <<r1, r2>> : r1 \in Records, r2 \in Records }

\* result of a call: the tables it leaves, how it ended, what it returned
Res(D, status, ret) == [db |-> D, status |-> status, ret |-> ret]

Ok(D, ret) == Res(D, "ok", ret)

\* F applied to the result r of a statement that succeeded; r itself when
\* the statement ended the process
Then(v, F(_)) == CHOOSE r \in {IF x.status # "ok" THEN x ELSE F(x) : x \in {v}} : TRUE

RootRows(D, index) == {k \in DOMAIN D.nodes : D.nodes[k].root_id = index}

Max(S) == CHOOSE m \in S : \A k \in S : k <= m

\* the elements of a set of ids by ascending id
RECURSIVE SortedSeq(_)
SortedSeq(S) ==
    IF S = {} THEN <<>>
    ELSE With(CHOOSE k \in S : \A j \in S : k <= j, LAMBDA k :
         With(S \ {k}, LAMBDA rest : <<k>> \o SortedSeq(rest)))

\* the orders in which a SELECT may return the rows of S
Orders(S) ==
    {o \in [1..Cardinality(S) -> S] : \A i, j \in 1..Cardinality(S) : o[i] = o[j] => i = j}

\* the rows with ids in S in the order the scan ord of their table finds them
RowsInOrder(S, ord) ==
    LET listed(k) == k \in S
        given == {ord[i] : i \in DOMAIN ord}
    IN  SelectSeq(ord, listed) \o SortedSeq(S \ given)

\* ------------------------------------------------------------ schema setup
\* CREATE TABLE public.stars (star_id ... DEFAULT nextval('stars_star_id_seq'),
\* x, y, vx, vy, m): fails on a table that exists (log.Fatalf)
InitStarsTable(D) ==
    IF HasStars(D) THEN Res(D, "fatal", 0)
    ELSE Ok([D EXCEPT !.schema.stars = "created"], 0)

\* CREATE TABLE public.nodes (node_id, box_width, total_mass, depth, star_id,
\* root_id, isleaf, box_center, center_of_mass, subnodes): no column
\* timestep, no column subnode
InitNodesTable(D) ==
    IF HasNodes(D) THEN Res(D, "fatal", 0)
    ELSE Ok([D EXCEPT !.schema.nodes = "created"], 0)

\* the columns of nodes the queries name and InitNodesTable does not create
MissingColumns == {"subnode", "timestep"}

\* ---------------------------------------------------------------- NewTree
\* COALESCE(max(root_id), 0) over the rows of nodes
MaxRootID(D) ==
    IF DOMAIN D.nodes = {} THEN 0
    ELSE Max({D.nodes[k].root_id : k \in DOMAIN D.nodes})

\* SELECT COALESCE(max(root_id), 0) FROM nodes
NewTreeMax(D) ==
    IF ~HasNodes(D) THEN Res(D, "fatal", 0) ELSE Ok(D, MaxRootID(D))

\* mutant: the new root takes the current maximum as its index
NewTreeInsertNoIncrement(D, width, currentMaxRootID) ==
    IF ~FullNodes(D) THEN Res(D, "fatal", 0)
    ELSE LET id == D.node_seq + 1
         IN  Ok([D EXCEPT !.nodes = Put(@, id, NodeRow(0, 0, width, 0,
                                                      currentMaxRootID, currentMaxRootID)),
                          !.node_seq = id], id)

\* INSERT INTO nodes (box_width, root_id, box_center, depth, isleaf, timestep)
\* VALUES (width, currentMaxRootID+1, '{0, 0}', 0, TRUE, currentMaxRootID+1)
NewTreeInsert(D, width, currentMaxRootID) ==
    IF ~FullNodes(D) THEN Res(D, "fatal", 0)
    ELSE LET id == D.node_seq + 1
         IN  Ok([D EXCEPT !.nodes = Put(@, id, NodeRow(0, 0, width, 0,
                                                      currentMaxRootID + 1,
                                                      currentMaxRootID + 1)),
                          !.node_seq = id], id)

\* a call of NewTree that no statement of another call interrupts
NewTree(D, width) ==
    Then(NewTreeMax(D), LAMBDA currentMaxRootID :
        NewTreeInsert(currentMaxRootID.db, width, currentMaxRootID.ret))

\* --------------------------------------------------- accessors of a node
\* SELECT col FROM nodes WHERE node_id=...: no row (or no table) fails the
\* Scan (log.Fatalf)
Column(D, nodeID, col) ==
    IF nodeID \in DOMAIN D.nodes THEN Ok(D, D.nodes[nodeID][col])
    ELSE Res(D, "fatal", 0)

\* SELECT star_id FROM nodes WHERE node_id=...; starID != 0
containsStar(D, id) ==
    Then(Column(D, id, "star_id"), LAMBDA starID : Ok(D, starID.ret # 0))

isLeaf(D, nodeID) == Column(D, nodeID, "isleaf")

getStarID(D, nodeID) == Column(D, nodeID, "star_id")

getBoxWidth(D, nodeID) == Column(D, nodeID, "box_width")

getNodeDepth(D, nodeID) == Column(D, nodeID, "depth")

getTimestepNode(D, nodeID) == Column(D, nodeID, "timestep")

\* both x and y are parsed from the column box_center[1]
getBoxCenter(D, nodeID) ==
    Then(Column(D, nodeID, "box_center"), LAMBDA boxCenter :
        Ok(D, <<boxCenter.ret[1], boxCenter.ret[1]>>))

\* UPDATE nodes SET (the columns of cols) WHERE node_id=...: a node id
\* without a row updates nothing
Update(D, nodeID, cols) ==
    IF ~HasNodes(D) \/ (~FullNodes(D) /\ DOMAIN cols \cap MissingColumns # {})
    THEN Res(D, "fatal", 0)
    ELSE IF nodeID \notin DOMAIN D.nodes THEN Ok(D, 0)
    ELSE LET row == D.nodes[nodeID]
         IN  Ok([D EXCEPT !.nodes[nodeID] =
                     [c \in DOMAIN row |-> IF c \in DOMAIN cols THEN cols[c] ELSE row[c]]],
                0)

\* mutant: the UPDATE without its WHERE clause
directInsertEveryRow(D, starID, nodeID) ==
    IF ~HasNodes(D) THEN Res(D, "fatal", 0)
    ELSE Ok([D EXCEPT !.nodes = [k \in DOMAIN @ |-> [@[k] EXCEPT !.star_id = starID]]], 0)

\* UPDATE nodes SET star_id=... WHERE node_id=...
directInsert(D, starID, nodeID) == Update(D, nodeID, [star_id |-> starID])

\* UPDATE nodes SET star_id=0 WHERE node_id=...
removeStarFromNode(D, nodeID) == Update(D, nodeID, [star_id |-> 0])

\* mutant: the timestep column is left at its default
newNodeNoTimestep(D, x, y, width, depth, timestep) ==
    IF ~FullNodes(D) THEN Res(D, "fatal", 0)
    ELSE LET id == D.node_seq + 1
         IN  Ok([D EXCEPT !.nodes = Put(@, id, NodeRow(x, y, width, depth, 0, 0)),
                          !.node_seq = id], id)

\* INSERT INTO nodes (box_center, box_width, depth, isleaf, timestep)
\* ... RETURNING node_id: root_id is not among the columns
newNode(D, x, y, width, depth, timestep) ==
    IF ~FullNodes(D) THEN Res(D, "fatal", 0)
    ELSE LET id == D.node_seq + 1
         IN  Ok([D EXCEPT !.nodes = Put(@, id, NodeRow(x, y, width, depth, 0, timestep)),
                          !.node_seq = id], id)

Half(w) == w \div 2

\* ---------------------------------------------------------------- subdivide
\* the centre of the n-th node subdivide creates: (newPosX, newPosY),
\* (newPosX, newNegY), (newNegX, newPosY), (newNegX, newNegY)
childCenter(boxCenter, boxWidth, n) ==
    << IF n \in {1, 2} THEN boxCenter[1] + Half(boxWidth) ELSE boxCenter[1] - Half(boxWidth),
       IF n \in {1, 3} THEN boxCenter[2] + Half(boxWidth) ELSE boxCenter[2] - Half(boxWidth) >>

\* the n-th newNode(...) call of subdivide
subdivideNewNode(D, boxCenter, boxWidth, originalDepth, timestep, n) ==
    newNode(D, childCenter(boxCenter, boxWidth, n)[1], childCenter(boxCenter, boxWidth, n)[2],
            Half(boxWidth), originalDepth + 1, timestep)

\* mutant: the fourth child is not written
subdivideUpdateThree(D, nodeID, ids, timestep) ==
    Update(D, nodeID, [subnode  |-> <<ids[1], ids[2], ids[3], 0>>,
                       isleaf   |-> FALSE,
                       timestep |-> timestep])

\* UPDATE nodes SET subnode='{A, B, C, D}', isleaf=FALSE, timestep=...
\* WHERE node_id=...
subdivideUpdate(D, nodeID, ids, timestep) ==
    Update(D, nodeID, [subnode  |-> ids,
                       isleaf   |-> FALSE,
                       timestep |-> timestep])

\* a call of subdivide that no statement of another call interrupts
subdivide(D, nodeID) ==
    Then(getBoxWidth(D, nodeID), LAMBDA boxWidth :
    Then(getBoxCenter(D, nodeID), LAMBDA boxCenter :
    Then(getNodeDepth(D, nodeID), LAMBDA originalDepth :
    Then(getTimestepNode(D, nodeID), LAMBDA timestep :
    Then(subdivideNewNode(D,    boxCenter.ret, boxWidth.ret, originalDepth.ret, timestep.ret, 1), LAMBDA a :
    Then(subdivideNewNode(a.db, boxCenter.ret, boxWidth.ret, originalDepth.ret, timestep.ret, 2), LAMBDA b :
    Then(subdivideNewNode(b.db, boxCenter.ret, boxWidth.ret, originalDepth.ret, timestep.ret, 3), LAMBDA c :
    Then(subdivideNewNode(c.db, boxCenter.ret, boxWidth.ret, originalDepth.ret, timestep.ret, 4), LAMBDA d :
        subdivideUpdate(d.db, nodeID, <<a.ret, b.ret, c.ret, d.ret>>, timestep.ret)))))))))

\* ------------------------------------------------------------------ stars
\* INSERT INTO stars (x, y, vx, vy, m) VALUES (%f, %f, %f, %f, %f) RETURNING
\* star_id: the numeric columns take the six decimals "%f" prints; "%f"
\* prints NaN and the infinities as words the server does not take for a
\* number (log.Fatalf)
insertIntoStars(D, star) ==
    IF ~HasStars(D) \/ ~Finite(star.x) \/ ~Finite(star.y) THEN Res(D, "fatal", 0)
    ELSE LET id == D.star_seq + 1
         IN  Ok([D EXCEPT !.stars = Put(@, id, [star EXCEPT !.x = Fmt6(@), !.y = Fmt6(@)]),
                          !.star_seq = id], id)

\* GetStar(db *sql.DB, starID): the query runs on the handle passed in, which
\* hides the package's handle.  QueryRow on a nil *sql.DB is a nil pointer
\* dereference (panic); a star id without a row fails the Scan (log.Fatalf).
GetStar(database, D, starID) ==
    IF database = NilDB THEN Res(D, "panic", 0)
    ELSE IF starID \notin DOMAIN D.stars THEN Res(D, "fatal", 0)
    ELSE Ok(D, D.stars[starID])

\* codes: 1 north east, 3 south east, 0 north west, 2 south west
quadrant(star, D, nodeID) ==
    Then(getBoxCenter(D, nodeID), LAMBDA center :
        Ok(D, IF FLess(Flt(center.ret[1]), star.x)
              THEN (IF FLess(Flt(center.ret[2]), star.y) THEN 1 ELSE 3)
              ELSE (IF FLess(Flt(center.ret[2]), star.y) THEN 0 ELSE 2)))

\* SELECT subnode[1], subnode[2], subnode[3], subnode[4] FROM nodes WHERE
\* node_id=...; case 0 is the first of them
getQuadrantNodeID(D, parentNodeID, q) ==
    Then(Column(D, parentNodeID, "subnode"), LAMBDA subnode :
        Ok(D, IF q \in 0..3 THEN subnode.ret[q + 1] ELSE -1))

\* ------------------------------------------------------------ insertIntoTree
\* A call of insertIntoTree that no statement of another call interrupts.
\* The four cases are decided on containsStar and isLeaf as read on entry, so
\* exactly one of the four if-blocks runs.  fuel bounds the recursion depth
\* explored; a call that exhausts it is reported as "diverge".
RECURSIVE insertIntoTree(_, _, _, _)
\* the two stages of the cases 1 and 3: the blocking star goes down; then
\* GetStar(nil, ...) reads the new star (case 1) or the blocking star again
\* (case 3) and the insert starts again at nodeID
moveBlockingStar(D, starID, nodeID, readsNewStar, fuel) ==
    Then(getStarID(D, nodeID), LAMBDA blockingStarID :
    Then(GetStar(NilDB, D, blockingStarID.ret), LAMBDA blockingStar :
    Then(quadrant(blockingStar.ret, D, nodeID), LAMBDA blockingStarQuadrant :
    Then(getQuadrantNodeID(D, nodeID, blockingStarQuadrant.ret), LAMBDA quadrantNodeID :
    Then(insertIntoTree(D, blockingStarID.ret, quadrantNodeID.ret, fuel - 1), LAMBDA r1 :
    Then(removeStarFromNode(r1.db, nodeID), LAMBDA D2 :
    Then(GetStar(NilDB, D2.db, IF readsNewStar THEN starID ELSE blockingStarID.ret), LAMBDA star :
    Then(quadrant(star.ret, D2.db, nodeID), LAMBDA starQuadrant :
    Then(getQuadrantNodeID(D2.db, nodeID, starQuadrant.ret), LAMBDA ignored :
        insertIntoTree(D2.db, starID, nodeID, fuel - 1))))))))))

insertIntoTree(D, starID, nodeID, fuel) ==
    IF fuel = 0 THEN Res(D, "diverge", 0)
    ELSE
    Then(containsStar(D, nodeID), LAMBDA cs :
    Then(isLeaf(D, nodeID), LAMBDA leaf :
        IF leaf.ret /\ cs.ret THEN
            Then(subdivide(D, nodeID), LAMBDA D1 :
                moveBlockingStar(D1.db, starID, nodeID, TRUE, fuel))
        ELSE IF leaf.ret /\ ~cs.ret THEN
            directInsert(D, starID, nodeID)
        ELSE IF ~leaf.ret /\ cs.ret THEN
            moveBlockingStar(D, starID, nodeID, FALSE, fuel)
        ELSE
            Then(GetStar(NilDB, D, starID), LAMBDA star :
            Then(quadrant(star.ret, D, nodeID), LAMBDA starQuadrant :
            Then(getQuadrantNodeID(D, nodeID, starQuadrant.ret), LAMBDA quadrantNodeID :
                insertIntoTree(D, starID, quadrantNodeID.ret, fuel - 1))))))

\* SELECT node_id FROM nodes WHERE root_id=...: the row the scan finds first,
\* or no row (Scan fails, log.Fatalf)
getRootNodeID(D, index) ==
    IF RootRows(D, index) = {} THEN Res(D, "fatal", 0)
    ELSE Ok(D, Head(RowsInOrder(RootRows(D, index), D.scan.nodes)))

\* ---------------------------------------------------------------- InsertStar
\* select case when exists (select node_id from nodes where root_id=...)
\* then (select node_id from nodes where root_id=...) else -1 end: the scalar
\* subquery fails on two rows with the same root_id
lookupRootNodeID(D, index) ==
    IF ~HasNodes(D) \/ Cardinality(RootRows(D, index)) > 1 THEN Res(D, "fatal", 0)
    ELSE IF RootRows(D, index) = {} THEN Ok(D, -1)
    ELSE Ok(D, CHOOSE k \in RootRows(D, index) : TRUE)

\* a call of InsertStar that no statement of another call interrupts; ret is
\* the star id
InsertStar(D, star, index) ==
    With(insertIntoStars(D, star), LAMBDA s :
        IF s.status # "ok" THEN s
        ELSE
        With(Then(lookupRootNodeID(s.db, index), LAMBDA id :
                 IF id.ret # -1 THEN id
                 ELSE Then(NewTree(id.db, DefaultWidth), LAMBDA t :
                          getRootNodeID(t.db, index))), LAMBDA id :
            IF id.status # "ok" THEN Res(id.db, id.status, s.ret)
            ELSE With(insertIntoTree(id.db, s.ret, id.ret, MaxDepth), LAMBDA r :
                     Res(r.db, r.status, s.ret))))

\* DELETE FROM stars WHERE TRUE / DELETE FROM nodes WHERE TRUE: the rows go,
\* the sequences keep their value
DeleteAllStars(D) ==
    IF ~HasStars(D) THEN Res(D, "fatal", 0) ELSE Ok([D EXCEPT !.stars = EmptyTable], 0)

DeleteAllNodes(D) ==
    IF ~HasNodes(D) THEN Res(D, "fatal", 0) ELSE Ok([D EXCEPT !.nodes = EmptyTable], 0)

\* -------------------------------------------------------------- aggregation
\* SELECT m FROM stars WHERE star_id=...: no row fails the Scan (log.Fatalf)
getStarMass(D, starID) ==
    IF starID \notin DOMAIN D.stars THEN Res(D, "fatal", 0)
    ELSE Ok(D, D.stars[starID].m)

getNodeTotalMass(D, nodeID) == Column(D, nodeID, "total_mass")

\* a call of updateTotalMassNode that no statement of another call
\* interrupts, and the loop over its four subnode ids, from the i-th on, with
\* the sum so far; a subnode id 0 adds the node's own star and breaks
RECURSIVE updateTotalMassNode(_, _)
RECURSIVE totalMassLoop(_, _, _, _, _)
totalMassLoop(D, nodeID, subnode, i, totalmass) ==
    IF i > 4 THEN Ok(D, totalmass)
    ELSE IF subnode[i] # 0
    THEN Then(updateTotalMassNode(D, subnode[i]), LAMBDA r :
             With(totalmass + r.ret, LAMBDA sum :
                 totalMassLoop(r.db, nodeID, subnode, i + 1, sum)))
    ELSE Then(getStarID(D, nodeID), LAMBDA starID :
             IF starID.ret # 0
             THEN Then(getStarMass(D, starID.ret), LAMBDA mass :
                      Ok(D, totalmass + mass.ret))
             ELSE Ok(D, totalmass))

updateTotalMassNode(D, nodeID) ==
    Then(Column(D, nodeID, "subnode"), LAMBDA subnode :
    Then(totalMassLoop(D, nodeID, subnode.ret, 1, 0), LAMBDA r :
    Then(Update(r.db, nodeID, [total_mass |-> r.ret]), LAMBDA u :
        Ok(u.db, r.ret))))

UpdateTotalMass(D, index) ==
    Then(getRootNodeID(D, index), LAMBDA rootNodeID :
        updateTotalMassNode(D, rootNodeID.ret))

\* the test of the loop on the centre a subnode returned:
\* subnodeCenterOfMass.X != 0 && subnodeCenterOfMass.Y != 0
subnodeCounted(subnodeCenterOfMass) ==
    FNonZero(subnodeCenterOfMass[1]) /\ FNonZero(subnodeCenterOfMass[2])

\* totalMass += subnodeMass; centerOfMassX += X * subnodeMass; ... on
\* acc = <<totalMass, centerOfMassX, centerOfMassY>>
addSubnode(acc, subnodeCenterOfMass, subnodeMass) ==
    << FAdd(acc[1], subnodeMass),
       FAdd(acc[2], FMul(subnodeCenterOfMass[1], subnodeMass)),
       FAdd(acc[3], FMul(subnodeCenterOfMass[2], subnodeMass)) >>

\* centerOfMass = {centerOfMassX / totalMass, centerOfMassY / totalMass}
overallCenter(acc) == << FDiv(acc[2], acc[1]), FDiv(acc[3], acc[1]) >>

\* UPDATE nodes SET center_of_mass='{%f, %f}' WHERE node_id=...
updateCenter(D, nodeID, centerOfMass) ==
    Update(D, nodeID, [center_of_mass |-> <<Fmt6(centerOfMass[1]), Fmt6(centerOfMass[2])>>])

\* a call of updateCenterOfMassNode that no statement of another call
\* interrupts, and its loop over the four subnode ids.  ret is the float pair
\* the function returns; the row gets the pair as "%f" prints it.
RECURSIVE updateCenterOfMassNode(_, _)
RECURSIVE centerOfMassLoop(_, _, _, _)
centerOfMassLoop(D, subnode, i, acc) ==
    IF i > 4 THEN Ok(D, acc)
    ELSE Then(updateCenterOfMassNode(D, subnode[i]), LAMBDA r :
             IF subnodeCounted(r.ret)
             THEN Then(getNodeTotalMass(r.db, subnode[i]), LAMBDA subnodeMass :
                  With(addSubnode(acc, r.ret, Flt(subnodeMass.ret)), LAMBDA acc2 :
                      centerOfMassLoop(r.db, subnode, i + 1, acc2)))
             ELSE centerOfMassLoop(r.db, subnode, i + 1, acc))

updateCenterOfMassNode(D, nodeID) ==
    Then(Column(D, nodeID, "subnode"), LAMBDA subnode :
    Then(IF subnode.ret # <<0, 0, 0, 0>>
         THEN Then(centerOfMassLoop(D, subnode.ret, 1, <<Flt(0), Flt(0), Flt(0)>>),
                   LAMBDA l : Ok(l.db, overallCenter(l.ret)))
         ELSE Then(getStarID(D, nodeID), LAMBDA starID :
                  IF starID.ret = 0 THEN Ok(D, Zero2)
                  ELSE Then(GetStar(NilDB, D, starID.ret), LAMBDA star :
                           Ok(D, <<star.ret.x, star.ret.y>>))),
         LAMBDA r :
    Then(updateCenter(r.db, nodeID, r.ret), LAMBDA u :
        Ok(u.db, r.ret))))

UpdateCenterOfMass(D, index) ==
    Then(getRootNodeID(D, index), LAMBDA rootNodeID :
        updateCenterOfMassNode(D, rootNodeID.ret))

\* ------------------------------------------------------------------ lists
\* the list f[ids[1]], f[ids[2]], ...
MapSeq(ids, f) == [i \in DOMAIN ids |-> f[ids[i]]]

\* SELECT star_id FROM nodes WHERE star_id<>0 AND timestep=...: one entry per
\* node row, in the order the scan finds the rows
GetListOfStarIDsTimestep(D, timestep) ==
    IF ~FullNodes(D) THEN Res(D, "fatal", <<>>)
    ELSE Ok(D, MapSeq(RowsInOrder({k \in DOMAIN D.nodes :
                                      D.nodes[k].star_id # 0 /\ D.nodes[k].timestep = timestep},
                                  D.scan.nodes),
                      [k \in DOMAIN D.nodes |-> D.nodes[k].star_id]))

\* mutant: the rows of every tree
GetListOfStarsTreeAnyTimestep(D, treeindex) ==
    IF ~HasStars(D) \/ ~FullNodes(D) THEN Res(D, "fatal", <<>>)
    ELSE Ok(D, MapSeq(RowsInOrder({sid \in DOMAIN D.stars :
                                      \E k \in DOMAIN D.nodes : D.nodes[k].star_id = sid},
                                  D.scan.stars),
                      D.stars))

\* SELECT * FROM stars WHERE star_id IN (SELECT star_id FROM nodes WHERE
\* timestep=...): one Star2D per row of stars, in the order the scan finds
\* the rows; the star_id is dropped
GetListOfStarsTree(D, treeindex) ==
    IF ~HasStars(D) \/ ~FullNodes(D) THEN Res(D, "fatal", <<>>)
    ELSE Ok(D, MapSeq(RowsInOrder({sid \in DOMAIN D.stars :
                                      \E k \in DOMAIN D.nodes :
                                          D.nodes[k].timestep = treeindex
                                          /\ D.nodes[k].star_id = sid},
                                  D.scan.stars),
                      D.stars))

\* ----------------------------------------------------------------- forces
\* A force component is a real number in units of G, kept exactly as a sum of
\* q * sqrt(n) over square-free n: a function from n to the fraction q # 0.
\* float64 rounds these values; signs, zero and NaN are the same.
LZero == EmptyTable

LNaN == [n \in {0} |-> NaN]

\* the largest r with r * r dividing n
SquarePart(n) == Max({r \in 1..MaxRoot : r * r <= n /\ n % (r * r) = 0})

\* q * sqrt(n) for n > 0
LTerm(q, n) ==
    IF q.n = 0 THEN LZero
    ELSE With(SquarePart(n), LAMBDA r : [k \in {n \div (r * r)} |-> FMul(q, Flt(r))])

LAdd(a, b) ==
    IF a = LNaN \/ b = LNaN THEN LNaN
    ELSE LET S   == DOMAIN a \cup DOMAIN b
             sum == [n \in S |-> FAdd(IF n \in DOMAIN a THEN a[n] ELSE Flt(0),
                                      IF n \in DOMAIN b THEN b[n] ELSE Flt(0))]
         IN  [n \in {k \in S : sum[k].n # 0} |-> sum[n]]

Vec2Zero == <<LZero, LZero>>

Vec2Add(f, g) == <<LAdd(f[1], g[1]), LAdd(f[2], g[2])>>

\* calcForce(s1, s2): scalar G*m1*m2/d^2 times the unit vector from s1 to s2.
\* At distance 0 the unit vector is 0/0: both components are NaN.  With the
\* squared distance d2 = a/b the component along x is
\* m1*m2*(s2.x - s1.x) / (d2 * a) * sqrt(a * b).
calcForce(s1, s2) ==
    LET combinedMass == s1.m * s2.m
        dx == FAdd(s2.x, FNeg(s1.x))
        dy == FAdd(s2.y, FNeg(s1.y))
        d2 == FAdd(FMul(dx, dx), FMul(dy, dy))
    IN  IF d2.n = 0 THEN <<LNaN, LNaN>>
        ELSE << LTerm(FDiv(FMul(Flt(combinedMass), dx), FMul(d2, Flt(d2.n))), d2.n * d2.d),
                LTerm(FDiv(FMul(Flt(combinedMass), dy), FMul(d2, Flt(d2.n))), d2.n * d2.d) >>

\* what CalcAllForcesNode adds for the star read from a subtree:
\* if localStar != star { force = calcForce(localStar, star) }
pairForce(localStar, star) ==
    IF localStar # star THEN calcForce(localStar, star) ELSE Vec2Zero

getNodeCenterOfMass(D, nodeID) == Column(D, nodeID, "center_of_mass")

\* SELECT subnode[1], subnode[2], subnode[3], subnode[4] FROM nodes WHERE
\* node_id=...
getSubtreeIDs(D, nodeID) == Column(D, nodeID, "subnode")

\* the square of distance(star, nodeID), node being the centre of mass read
\* from the row; NaN where the stored centre is NaN
distanceSquared(star, node) ==
    LET tmpX == FMul(FAdd(star.x, FNeg(node[1])), FAdd(star.x, FNeg(node[1])))
        tmpY == FMul(FAdd(star.y, FNeg(node[2])), FAdd(star.y, FNeg(node[2])))
    IN  FAdd(tmpX, tmpY)

\* the square of calcTheta(star, nodeID) = d / r, a value that is >= 0, +Inf
\* (r = 0 < d) or NaN; d is the box width read, r2 the squared distance
calcThetaSquared(d, r2) == FDiv(Flt(d * d), r2)

\* localTheta < theta, on the square of localTheta (localTheta is >= 0, +Inf
\* or NaN): false when either is NaN, when localTheta is +Inf and when theta
\* is -Inf or a number <= 0; true of every number when theta is +Inf
thetaLess(localThetaSquared, theta) ==
    /\ Finite(localThetaSquared)
    /\ ~FIsNaN(theta)
    /\ theta.n > 0
    /\ \/ ~Finite(theta)
       \/ localThetaSquared.n * theta.d * theta.d < theta.n * theta.n * localThetaSquared.d

\* ------------------------------------------------------------ GenForestTree
\* fmt.Sprintf("%.0f", v): the nearest integer, ties to even, "-0" for a
\* negative value that rounds to zero
Fmt0(a) ==
    IF a.d = 0 THEN (IF a.n = 0 THEN "NaN" ELSE IF a.n > 0 THEN "+Inf" ELSE "-Inf")
    ELSE LET q    == Abs(a.n) \div a.d
             rem2 == 2 * (Abs(a.n) % a.d)
             r    == IF rem2 > a.d \/ (rem2 = a.d /\ q % 2 = 1) THEN q + 1 ELSE q
         IN  IF a.n < 0 THEN "-" \o ToString(r) ELSE ToString(r)

getCenterOfMass(D, nodeID) == Column(D, nodeID, "center_of_mass")

\* getStarCoordinates after its getStarID: SELECT x, y FROM stars WHERE
\* star_id=...; no row fails the Scan (log.Fatalf)
selectStarCoordinates(D, starID) ==
    IF starID \notin DOMAIN D.stars THEN Res(D, "fatal", Zero2)
    ELSE Ok(D, <<D.stars[starID].x, D.stars[starID].y>>)

\* fmt.Sprintf("%.0f %.0f %.0f", centerOfMass.X, centerOfMass.Y, mass)
forestAggregates(centerOfMass, mass) ==
    Fmt0(centerOfMass[1]) \o " " \o Fmt0(centerOfMass[2]) \o " " \o Fmt0(Flt(mass))

\* fmt.Sprintf("[%.0f %.0f %.0f]", coords.X, coords.Y, mass)
forestStar(coords, mass) ==
    "[" \o Fmt0(coords[1]) \o " " \o Fmt0(coords[2]) \o " " \o Fmt0(Flt(mass)) \o "]"

\* --------------------------------------------------------------- InsertList
\* strconv.ParseFloat(field, 64): the field is a sequence of characters
Digits == <<"0", "1", "2", "3", "4", "5", "6", "7", "8", "9">>

HexLetters == <<"a", "b", "c", "d", "e", "f">>

Capitals == <<"A", "B", "C", "D", "E", "F", "G", "H", "I", "J", "K", "L", "M",
              "N", "O", "P", "Q", "R", "S", "T", "U", "V", "W", "X", "Y", "Z">>

Smalls == <<"a", "b", "c", "d", "e", "f", "g", "h", "i", "j", "k", "l", "m",
            "n", "o", "p", "q", "r", "s", "t", "u", "v", "w", "x", "y", "z">>

lower(c) ==
    IF \E i \in DOMAIN Capitals : Capitals[i] = c
    THEN Smalls[CHOOSE i \in DOMAIN Capitals : Capitals[i] = c]
    ELSE c

IsDigit(c) == \E i \in DOMAIN Digits : Digits[i] = c

IsHexLetter(c) == \E i \in DOMAIN HexLetters : HexLetters[i] = lower(c)

DigitValue(c) ==
    IF IsDigit(c) THEN (CHOOSE i \in DOMAIN Digits : Digits[i] = c) - 1
    ELSE 9 + (CHOOSE i \in DOMAIN HexLetters : HexLetters[i] = lower(c))

RECURSIVE commonPrefixLenIgnoreCase(_, _)
commonPrefixLenIgnoreCase(s, prefix) ==
    IF s = <<>> \/ prefix = <<>> THEN 0
    ELSE IF lower(Head(s)) # Head(prefix) THEN 0
    ELSE 1 + commonPrefixLenIgnoreCase(Tail(s), Tail(prefix))

NoFloat == [ok |-> FALSE, val |-> Flt(0), n |-> 0]

\* special(s): "inf" and "infinity" with or without a sign, "nan" without
\* one, in any case of the letters; n is the number of characters taken
special(s) ==
    IF s = <<>> THEN NoFloat
    ELSE IF Head(s) \in {"+", "-", "i", "I"}
    THEN LET signed == Head(s) \in {"+", "-"}
             n == commonPrefixLenIgnoreCase(IF signed THEN Tail(s) ELSE s,
                                            <<"i", "n", "f", "i", "n", "i", "t", "y">>)
             m == IF 3 < n /\ n < 8 THEN 3 ELSE n
         IN  IF m = 3 \/ m = 8
             THEN [ok |-> TRUE, val |-> Frac(IF Head(s) = "-" THEN -1 ELSE 1, 0),
                   n |-> m + (IF signed THEN 1 ELSE 0)]
             ELSE NoFloat
    ELSE IF Head(s) \in {"n", "N"} /\ commonPrefixLenIgnoreCase(s, <<"n", "a", "n">>) = 3
    THEN [ok |-> TRUE, val |-> NaN, n |-> 3]
    ELSE NoFloat

\* readFloat: the digits of the mantissa from s[st.i] on, with at most one
\* point and with underscores; mant is the number the digits make, fd the
\* number of digits after the point
RECURSIVE readMantissa(_, _, _)
readMantissa(s, base, st) ==
    IF st.i > Len(s) THEN st
    ELSE IF s[st.i] = "_"
    THEN readMantissa(s, base, [st EXCEPT !.i = @ + 1, !.underscores = TRUE])
    ELSE IF s[st.i] = "."
    THEN (IF st.sawdot THEN st
          ELSE readMantissa(s, base, [st EXCEPT !.i = @ + 1, !.sawdot = TRUE]))
    ELSE IF IsDigit(s[st.i]) \/ (base = 16 /\ IsHexLetter(s[st.i]))
    THEN readMantissa(s, base, [st EXCEPT !.i = @ + 1,
                                          !.sawdigits = TRUE,
                                          !.mant = @ * base + DigitValue(s[st.i]),
                                          !.fd = IF st.sawdot THEN @ + 1 ELSE @])
    ELSE st

\* readFloat: the digits of the exponent from s[st.i] on, with underscores
RECURSIVE readExponent(_, _)
readExponent(s, st) ==
    IF st.i > Len(s) THEN st
    ELSE IF s[st.i] = "_"
    THEN readExponent(s, [st EXCEPT !.i = @ + 1, !.underscores = TRUE])
    ELSE IF IsDigit(s[st.i])
    THEN readExponent(s, [st EXCEPT !.i = @ + 1,
                                    !.e = IF @ < 10000 THEN @ * 10 + DigitValue(s[st.i])
                                          ELSE @])
    ELSE st

\* underscoreOK: an underscore stands between two digits, or between a base
\* prefix and a digit; saw is the kind of the character before
RECURSIVE underscoreScan(_, _, _, _)
underscoreScan(s, i, saw, hex) ==
    IF i > Len(s) THEN saw # "_"
    ELSE IF IsDigit(s[i]) \/ (hex /\ IsHexLetter(s[i]))
    THEN underscoreScan(s, i + 1, "0", hex)
    ELSE IF s[i] = "_" THEN saw = "0" /\ underscoreScan(s, i + 1, "_", hex)
    ELSE saw # "_" /\ underscoreScan(s, i + 1, "!", hex)

underscoreOK(s) ==
    LET t        == IF s # <<>> /\ Head(s) \in {"+", "-"} THEN Tail(s) ELSE s
        prefixed == Len(t) >= 2 /\ t[1] = "0" /\ lower(t[2]) \in {"b", "o", "x"}
    IN  underscoreScan(t, IF prefixed THEN 3 ELSE 1, IF prefixed THEN "0" ELSE "^",
                       prefixed /\ lower(t[2]) = "x")

\* readFloat(s): sign, "0x" for a hexadecimal mantissa, mantissa, exponent
\* ("e" and decimal digits; "p" and decimal digits, which a hexadecimal
\* mantissa must have).  exp is the power of the base (10, or 2) the mantissa
\* is multiplied with; n is the number of characters taken.
readFloat(s) ==
    LET i0   == IF s # <<>> /\ Head(s) \in {"+", "-"} THEN 2 ELSE 1
        hex  == i0 + 2 <= Len(s) /\ s[i0] = "0" /\ lower(s[i0 + 1]) = "x"
        m    == readMantissa(s, IF hex THEN 16 ELSE 10,
                             [i |-> IF hex THEN i0 + 2 ELSE i0, sawdot |-> FALSE,
                              sawdigits |-> FALSE, underscores |-> FALSE,
                              mant |-> 0, fd |-> 0])
        hasExp == m.i <= Len(s) /\ lower(s[m.i]) = (IF hex THEN "p" ELSE "e")
        j    == m.i + 1
        k    == IF j <= Len(s) /\ s[j] \in {"+", "-"} THEN j + 1 ELSE j
        x    == readExponent(s, [i |-> k, e |-> 0, underscores |-> m.underscores])
        end  == IF hasExp THEN x.i ELSE m.i
        e    == IF ~hasExp \/ j > Len(s) THEN 0 ELSE IF s[j] = "-" THEN -x.e ELSE x.e
    IN  [ok   |-> /\ i0 <= Len(s)
                  /\ m.sawdigits
                  /\ IF hasExp THEN k <= Len(s) /\ IsDigit(s[k]) ELSE ~hex
                  /\ (IF hasExp THEN x.underscores ELSE m.underscores)
                         => underscoreOK(SubSeq(s, 1, end - 1)),
         neg  |-> s # <<>> /\ Head(s) = "-",
         hex  |-> hex,
         mant |-> m.mant,
         exp  |-> IF hex THEN e - 4 * m.fd ELSE e - m.fd,
         n    |-> end - 1]

RECURSIVE Pow(_, _)
Pow(b, k) == IF k = 0 THEN 1 ELSE b * Pow(b, k - 1)

RECURSIVE DecLen(_)
DecLen(i) == IF i = 0 THEN 0 ELSE 1 + DecLen(i \div 10)

\* mant, read as the first digits of a number, is above the number whose
\* digits begin with those of lead: compared digit for digit over the
\* digits both have (the digits of lead decide for every 31-bit mant)
DigitsAbove(mant, lead) ==
    IF DecLen(mant) <= DecLen(lead)
    THEN mant > lead \div Pow(10, DecLen(lead) - DecLen(mant))
    ELSE mant \div Pow(10, DecLen(mant) - DecLen(lead)) > lead

\* decimal digits 2^1024 - 2^970 begins with: the least number that rounds
\* to +Inf, half way between the largest float64 and 2^1024 (309 digits
\* before the point)
OverflowLead == 1797693134

\* decimal digits 2^-1075 begins with: the largest number that rounds to 0,
\* half of the smallest float64 (its first digit is the 324th after the point)
UnderflowLead == 247032822

\* the float64 of mant * base^exp (mant a 31-bit integer, base 10 or 2), and
\* whether it is out of range.  From 2^1024 - 2^970 on it is +Inf with a
\* range error; up to 2^-1075 it is 0, without an error; between them it is
\* the float64 nearest to the number, held as the number itself (the model's
\* integers hold it for the fields of Records).
floatOf(mant, base, exp) ==
    LET len  == IF base = 10 THEN DecLen(mant) ELSE BitLen(mant)
        over == IF base = 10
                THEN \/ len + exp > 309
                     \/ len + exp = 309 /\ DigitsAbove(mant, OverflowLead)
                ELSE len + exp > 1024
        zero == IF base = 10
                THEN \/ len + exp < -323
                     \/ len + exp = -323 /\ ~DigitsAbove(mant, UnderflowLead)
                ELSE \/ len + exp < -1074
                     \/ len + exp = -1074 /\ IsPowerOfTwo(mant)
    IN  IF mant = 0 THEN [val |-> Flt(0), err |-> FALSE]
        ELSE IF over THEN [val |-> Frac(1, 0), err |-> TRUE]
        ELSE IF zero THEN [val |-> Flt(0), err |-> FALSE]
        ELSE [val |-> IF exp >= 0 THEN Flt(mant * Pow(base, exp))
                      ELSE Frac(mant, Pow(base, -exp)),
              err |-> FALSE]

\* strconv.ParseFloat(field, 64): a field that is no number as a whole is a
\* syntax error, for which the value returned is 0
ParseFloat(field) ==
    IF special(field).ok
    THEN (IF special(field).n = Len(field) THEN [val |-> special(field).val, err |-> FALSE]
          ELSE [val |-> Flt(0), err |-> TRUE])
    ELSE With(readFloat(field), LAMBDA r :
             IF ~r.ok \/ r.n # Len(field) THEN [val |-> Flt(0), err |-> TRUE]
             ELSE With(floatOf(r.mant, IF r.hex THEN 2 ELSE 10, r.exp), LAMBDA f :
                      [val |-> IF r.neg THEN FNeg(f.val) ELSE f.val, err |-> f.err]))

\* ---- float64 arithmetic of x / 100000: binary digits, most significant
\* first
RECURSIVE Binary(_)
Binary(i) == IF i = 0 THEN <<>> ELSE Append(Binary(i \div 2), i % 2)

\* the next k binary digits of r/d, 0 <= r < d, after bits, and what is left
RECURSIVE fractionBits(_, _, _, _)
fractionBits(r, d, k, bits) ==
    IF k = 0 THEN [m |-> bits, r |-> r]
    ELSE fractionBits((2 * r) % d, d, k - 1, Append(bits, (2 * r) \div d))

\* the binary digits 0 of r/d, 0 < r < d, before its first digit 1
RECURSIVE leadingZeros(_, _)
leadingZeros(r, d) == IF 2 * r >= d THEN 0 ELSE 1 + leadingZeros(2 * r, d)

\* the first k significant binary digits m of n/d (n, d > 0), the power of
\* two e of the first of them, and what is left after them (r/d of the last)
Significant(n, d, k) ==
    IF n >= d
    THEN With(fractionBits(n % d, d, k - BitLen(n \div d), Binary(n \div d)), LAMBDA f :
             [e |-> BitLen(n \div d) - 1, m |-> f.m, r |-> f.r])
    ELSE With(leadingZeros(n, d), LAMBDA z :
         With(fractionBits(n * Pow(2, z), d, k, <<>>), LAMBDA f :
             [e |-> -(z + 1), m |-> f.m, r |-> f.r]))

\* 54 significant digits and a rest rounded to the 53 of a float64's
\* mantissa: to the nearest, to the even one of two equally near
roundEven(x) ==
    LET keep == SubSeq(x.m, 1, 53)
        up   == x.m[54] = 1 /\ (x.r # 0 \/ keep[53] = 1)
        last0 == CHOOSE j \in 1..53 : keep[j] = 0 /\ \A i \in (j + 1)..53 : keep[i] = 1
    IN  IF ~up THEN [e |-> x.e, m |-> keep]
        ELSE IF \A i \in 1..53 : keep[i] = 1
        THEN [e |-> x.e + 1, m |-> [i \in 1..53 |-> IF i = 1 THEN 1 ELSE 0]]
        ELSE [e |-> x.e, m |-> [i \in 1..53 |-> IF i < last0 THEN keep[i]
                                                 ELSE IF i = last0 THEN 1 ELSE 0]]

\* the float64 nearest to n/d
Round64(n, d) == roundEven(Significant(n, d, 54))

\* the first 54 significant binary digits q of the quotient of the mantissa
\* m by the integer by, digit by digit; i is the digit of m taken next (0
\* after its last), rem what is left
RECURSIVE quotientBits(_, _, _, _, _)
quotientBits(m, by, i, rem, q) ==
    IF Len(q) = 54 THEN [m |-> q, r |-> rem, i |-> i]
    ELSE LET cur == 2 * rem + (IF i <= Len(m) THEN m[i] ELSE 0)
             b   == IF cur >= by THEN 1 ELSE 0
         IN  quotientBits(m, by, i + 1, cur - b * by,
                          IF q = <<>> /\ b = 0 THEN q ELSE Append(q, b))

\* x / by of a float64 x and an integer by: the float64 nearest to the
\* quotient
Div64(x, by) ==
    With(quotientBits(x.m, by, 1, 0, <<>>), LAMBDA f :
        roundEven([e |-> x.e - (f.i - 55), m |-> f.m, r |-> f.r]))

\* the mantissa a is above (1), equal to (0) or below (-1) the mantissa b
RECURSIVE bitsCompare(_, _)
bitsCompare(a, b) ==
    IF a = <<>> THEN 0
    ELSE IF Head(a) # Head(b) THEN Head(a) - Head(b)
    ELSE bitsCompare(Tail(a), Tail(b))

\* the float64 v is above (1), equal to (0) or below (-1) the number n/d
sideOf(v, n, d) ==
    With(Significant(n, d, 53), LAMBDA exact :
        IF v.e # exact.e THEN Sgn(v.e - exact.e)
        ELSE With(bitsCompare(v.m, exact.m), LAMBDA c :
                 IF c # 0 THEN c ELSE IF exact.r = 0 THEN 0 ELSE -1))

\* x / 100000 for the float64 x nearest to a: the float64 nearest to the
\* quotient of x, which is a rounded already.  It is held as the quotient of
\* a, with the side of it the float64 lies on (by magnitude).
quotient64(a, by) ==
    IF a.d = 0 \/ a.n = 0
    THEN [n |-> a.n, d |-> a.d, side |-> 0]
    ELSE With(FDiv(a, Flt(by)), LAMBDA q :
             [n |-> q.n, d |-> q.d,
              side |-> sideOf(Div64(Round64(Abs(a.n), a.d), by), Abs(q.n), q.d)])

\* the star InsertList makes of a record; the errors of ParseFloat are
\* dropped (x, _ := ...), the value it returns with an error (0 for a field
\* that is no number, an infinity for one out of range) is used
recordStar(record) ==
    [x  |-> quotient64(ParseFloat(record[1]).val, 100000),
     y  |-> quotient64(ParseFloat(record[2]).val, 100000),
     vx |-> 0, vy |-> 0, m |-> 1000]

\* the stars of the records of Records
StarOf == [record \in Records |-> recordStar(record)]

\* a call of InsertList that no statement of another call interrupts: its
\* loop over the records, from the i-th on.  ret lists the InsertStar calls made.
\* A call that panics or exits ends the loop with it.
RECURSIVE insertListLoop(_, _, _, _)
insertListLoop(D, file, i, calls) ==
    IF i > Len(file) THEN Ok(D, calls)
    ELSE
    With(StarOf[file[i]], LAMBDA star :
    With(InsertStar(D, star, 1), LAMBDA r :
    With(Append(calls, [sid |-> r.ret, index |-> 1, status |-> r.status, star |-> star]),
         LAMBDA calls2 :
        IF r.status # "ok" THEN Res(r.db, r.status, calls2)
        ELSE insertListLoop(r.db, file, i + 1, calls2))))

InsertList(D, file) == insertListLoop(D, file, 1, <<>>)

\* ------------------------------------------------------------------ actions
\* The database the program connects to: either no table exists yet (the
\* sequences the DDL names do), or both tables exist with the columns the
\* queries name, as the tests of the repository expect to find them.
Init ==
    /\ stars = EmptyTable
    /\ star_seq = 0
    /\ nodes = EmptyTable
    /\ node_seq = 0
    /\ schema \in {NoTables, DeployedTables}
    /\ last = [op |-> "init", status |-> "ok", width |-> 0]
    /\ called = {}
    /\ massFresh = {}
    /\ comRun = {}
    /\ running = EmptyTable
    /\ ncalls = 0

\* no call is in progress: the callers of the sequential specifications make
\* a call when the call before has ended
Idle == running = EmptyTable

Callers == 1..MaxCallers

Tables(D) ==
    /\ stars' = D.stars
    /\ star_seq' = D.star_seq
    /\ nodes' = D.nodes
    /\ node_seq' = D.node_seq

\* a function of one statement, called while no other call is in progress
Commit(op, r) ==
    /\ Idle
    /\ Tables(r.db)
    /\ schema' = r.db.schema
    /\ last' = [op |-> op, status |-> r.status, width |-> 0]
    /\ UNCHANGED <<running, ncalls>>

DoInitStarsTable ==
    /\ Commit("InitStarsTable", InitStarsTable(Cur))
    /\ UNCHANGED <<called, massFresh, comRun>>

DoInitNodesTable ==
    /\ Commit("InitNodesTable", InitNodesTable(Cur))
    /\ UNCHANGED <<called, massFresh, comRun>>

DoDeleteAllStars ==
    /\ Commit("DeleteAllStars", DeleteAllStars(Cur))
    /\ massFresh' = {}
    /\ comRun' = {}
    /\ UNCHANGED called

DoDeleteAllNodes ==
    /\ Commit("DeleteAllNodes", DeleteAllNodes(Cur))
    /\ called' = IF DeleteAllNodes(Cur).status = "ok" THEN {} ELSE called
    /\ massFresh' = {}
    /\ comRun' = {}

\* a call that only reads: the tables stay, "last" holds what it returned
Returned(op, index, r) ==
    /\ last' = [op |-> op, status |-> r.status, width |-> 0, index |-> index, ret |-> r.ret]
    /\ UNCHANGED <<stars, star_seq, nodes, node_seq, schema, called, massFresh,
                   comRun, running, ncalls>>

\* the tables as a statement scans them: the rows of S come in the order ord
ScanNodes(ord) == [Cur EXCEPT !.scan.nodes = ord]

ScanStars(ord) == [Cur EXCEPT !.scan.stars = ord]

HoldingStar(timestep) ==
    {k \in DOMAIN nodes : nodes[k].star_id # 0 /\ nodes[k].timestep = timestep}

\* the rows of stars a node with the timestep refers to
StarsOfTimestep(timestep) ==
    {sid \in DOMAIN stars :
        \E k \in DOMAIN nodes : nodes[k].timestep = timestep /\ nodes[k].star_id = sid}

DoGetListOfStarsTree ==
    /\ Idle
    /\ \E treeindex \in Indexes : \E ord \in Orders(StarsOfTimestep(treeindex)) :
           Returned("GetListOfStarsTree", treeindex,
                    GetListOfStarsTree(ScanStars(ord), treeindex))

DoGetListOfStarIDsTimestep ==
    /\ Idle
    /\ \E timestep \in Indexes : \E ord \in Orders(HoldingStar(timestep)) :
           Returned("GetListOfStarIDsTimestep", timestep,
                    GetListOfStarIDsTimestep(ScanNodes(ord), timestep))

ChildIDs(D, k) == {D.nodes[k].subnode[i] : i \in 1..4} \ {0}

\* the nodes reached from the nodes of todo by following subnode ids
RECURSIVE Closure(_, _, _)
Closure(D, todo, seen) ==
    IF todo = {} THEN seen
    ELSE With(CHOOSE j \in todo : TRUE, LAMBDA k :
         With(IF k \in DOMAIN D.nodes THEN ChildIDs(D, k) \ (seen \cup {k}) ELSE {},
              LAMBDA next :
         With((todo \ {k}) \cup next, LAMBDA todo2 :
         With(seen \cup {k}, LAMBDA seen2 :
             Closure(D, todo2, seen2)))))

\* a node of tree T that is no leaf and holds a star, or a star id held by two
\* nodes of T
Intermediate(D, T) ==
    LET N == UNION {Closure(D, {k}, {}) \cap DOMAIN D.nodes : k \in RootRows(D, T)}
    IN  \E k \in N :
            /\ D.nodes[k].star_id # 0
            /\ \/ ~D.nodes[k].isleaf
               \/ \E j \in N \ {k} : D.nodes[j].star_id = D.nodes[k].star_id

\* ------------------------------------------------- calls, statement by statement
\* Every query is its own transaction and no lock is taken, so a function
\* that runs several statements is one step per statement: the statements of
\* calls in progress at the same time interleave.  running[p] holds the
\* locals of the call caller p is in and the statement it is at (pc).
\*   op, index, width, file: the function called and its arguments
\*   star, starID, rec, before: InsertStar's star and its id; InsertList's record
\*   id, cs, leaf: insertIntoTree's nodeID, containsStar and isLeaf
\*   max: NewTree's currentMaxRootID;  made: the call ran NewTree
\*   box, kids: subdivide's boxWidth, boxCenter, originalDepth, timestep and
\*     the ids newNode returned
\*   arg: the star id GetStar is called with
\*   stack: the calls of updateTotalMassNode, updateCenterOfMassNode,
\*     CalcAllForcesNode or genForestTreeNode in progress, innermost last:
\*     [nodeID, subnode, i, acc], acc being the sum, force or string so far
\*   ret: the centre the innermost updateCenterOfMassNode returns; the centre
\*     or the coordinates genForestTreeNode read last
\*   theta: CalcAllForces' theta (star is its star, box.boxWidth calcTheta's d)
\*   force, str: what CalcAllForces and GenForestTree return
\*   visited: history, the nodes CalcAllForcesNode was called on
\*   clean: history, the tree was in no intermediate state at the call
Frame(op, index) ==
    [op |-> op, pc |-> "", index |-> index, width |-> 0, file |-> <<>>,
     star |-> 0, starID |-> 0, rec |-> 0, before |-> 0,
     id |-> 0, cs |-> FALSE, leaf |-> FALSE, max |-> 0, made |-> FALSE,
     box |-> [boxWidth |-> 0, boxCenter |-> <<0, 0>>, originalDepth |-> 0, timestep |-> 0],
     kids |-> <<>>, arg |-> 0, stack |-> <<>>, ret |-> Zero2,
     theta |-> Flt(0), force |-> Vec2Zero, str |-> "", visited |-> {},
     clean |-> TRUE]

At(p, pc) == p \in DOMAIN running /\ running[p].pc = pc

\* "last" from the moment a call begins until a call ends
Busy == [op |-> "call", status |-> "running", width |-> 0]

\* caller p enters the call with the locals f
Start(p, f) ==
    /\ p \notin DOMAIN running
    /\ running' = [q \in DOMAIN running \cup {p} |-> IF q = p THEN f ELSE running[q]]
    /\ last' = Busy
    /\ UNCHANGED <<stars, star_seq, nodes, node_seq, schema, called>>

\* the InsertStar call p is in, as the history keeps it
CallOf(f, status) == [sid |-> f.starID, index |-> f.index, status |-> status, star |-> f.star]

\* the call of p returns, panics or exits, its locals being f
Finish(p, f, status) ==
    /\ running' = [q \in DOMAIN running \ {p} |-> running[q]]
    /\ last' = IF f.op = "NewTree"
               THEN [op |-> "NewTree", status |-> status, width |-> f.width]
               ELSE IF f.op = "InsertList"
               THEN [op |-> "InsertList", status |-> status, width |-> 0,
                     file |-> f.file, before |-> f.before]
               ELSE IF f.op = "CalcAllForces"
               THEN [op |-> "CalcAllForces", status |-> status, width |-> 0,
                     index |-> f.index, star |-> f.star, theta |-> f.theta,
                     ret |-> [force |-> f.force, visited |-> f.visited]]
               ELSE IF f.op = "GenForestTree"
               THEN [op |-> "GenForestTree", status |-> status, width |-> 0,
                     index |-> f.index, ret |-> f.str]
               ELSE [op |-> f.op, status |-> status, width |-> 0]
    /\ called' = IF f.op \in {"InsertStar", "InsertList"}
                 THEN called \cup {CallOf(f, status)}
                 ELSE called
    /\ massFresh' = IF f.op = "UpdateTotalMass" /\ status = "ok"
                    THEN massFresh \cup {f.index}
                    ELSE massFresh
    /\ comRun' = IF f.op = "UpdateCenterOfMass"
                 THEN (IF f.index \in massFresh
                       THEN comRun \cup {f.index}
                       ELSE comRun \ {f.index})
                 ELSE comRun

\* the statement of p left the tables D; the call goes on with the locals f
Goes(p, D, f) ==
    /\ Tables(D)
    /\ running' = [running EXCEPT ![p] = f]
    /\ UNCHANGED <<schema, last, called, massFresh, comRun, ncalls>>

\* the statement of p left the tables D; the call ends
Ends(p, D, status) ==
    /\ Tables(D)
    /\ Finish(p, running[p], status)
    /\ UNCHANGED <<schema, ncalls>>

\* p runs the statement with result r: a failure ends the call, otherwise the
\* call goes on with the locals f
Runs(p, r, f) ==
    IF r.status # "ok" THEN Ends(p, r.db, r.status) ELSE Goes(p, r.db, f)

\* as Runs, for a statement after which the function may return (f.pc is
\* "return"): the call ends with the locals f
Proceeds(p, r, f) ==
    IF r.status # "ok" THEN Ends(p, r.db, r.status)
    ELSE IF f.pc # "return" THEN Goes(p, r.db, f)
    ELSE /\ Tables(r.db)
         /\ Finish(p, f, "ok")
         /\ UNCHANGED <<schema, ncalls>>

\* ---- the calls of callers that wait for the call before
CallNewTree ==
    /\ Idle
    /\ node_seq < MaxNodes
    /\ MaxRootID(Cur) < MaxIndex
    /\ \E width \in Widths :
           Start(1, [Frame("NewTree", 0) EXCEPT !.pc = "NewTreeMax", !.width = width])
    /\ UNCHANGED <<massFresh, comRun, ncalls>>

InsertStarFrame(star, index) ==
    [Frame("InsertStar", index) EXCEPT !.pc = "insertIntoStars", !.star = star,
                                       !.clean = ~Intermediate(Cur, index)]

CallInsertStar ==
    /\ Idle
    /\ star_seq < MaxStars
    /\ \E in \in StarInputs, index \in Indexes :
           /\ InsertStar(Cur, Star2D(in), index).db.node_seq <= MaxNodes
           /\ Start(1, InsertStarFrame(Star2D(in), index))
           /\ massFresh' = massFresh \ {index}
           /\ comRun' = comRun \ {index}
    /\ UNCHANGED ncalls

CallUpdateTotalMass ==
    /\ Idle
    /\ \E index \in Indexes :
           /\ Start(1, [Frame("UpdateTotalMass", index) EXCEPT !.pc = "getRootNodeID"])
           /\ massFresh' = massFresh \ {index}
           /\ comRun' = comRun \ {index}
    /\ UNCHANGED ncalls

CallUpdateCenterOfMass ==
    /\ Idle
    /\ \E index \in Indexes :
           Start(1, [Frame("UpdateCenterOfMass", index) EXCEPT !.pc = "getRootNodeID"])
    /\ UNCHANGED <<massFresh, comRun, ncalls>>

InsertListFrame(file) ==
    [Frame("InsertList", 1) EXCEPT !.pc = "insertIntoStars", !.file = file,
                                   !.rec = 1, !.star = StarOf[file[1]],
                                   !.before = star_seq,
                                   !.clean = ~Intermediate(Cur, 1)]

CallInsertList ==
    /\ Idle
    /\ \E file \in Files :
           /\ star_seq + Len(file) <= MaxStars
           /\ InsertList(Cur, file).db.node_seq <= MaxNodes
           /\ Start(1, InsertListFrame(file))
    /\ massFresh' = massFresh \ {1}
    /\ comRun' = comRun \ {1}
    /\ UNCHANGED ncalls

ForceFrame(star, galaxyIndex, theta) ==
    [Frame("CalcAllForces", galaxyIndex) EXCEPT !.pc = "getRootNodeID", !.star = star,
                                                !.theta = theta]

CallCalcAllForces ==
    /\ Idle
    /\ \E star \in Probes, galaxyIndex \in Indexes, theta \in Thetas :
           Start(1, ForceFrame(star, galaxyIndex, theta))
    /\ UNCHANGED <<massFresh, comRun, ncalls>>

CallGenForestTree ==
    /\ Idle
    /\ \E index \in Indexes :
           Start(1, [Frame("GenForestTree", index) EXCEPT !.pc = "getRootNodeID"])
    /\ UNCHANGED <<massFresh, comRun, ncalls>>

\* ---- the calls of callers that do not wait for one another
\* the tree they meet: a caller that waits for its calls has put up to
\* MaxSetupStars stars into trees and run UpdateTotalMass before they begin
SetupInsertStar ==
    /\ Idle
    /\ ncalls = 0
    /\ star_seq < MaxSetupStars
    /\ \E in \in StarInputs, index \in Shared :
           /\ Start(1, InsertStarFrame(Star2D(in), index))
           /\ massFresh' = massFresh \ {index}
           /\ comRun' = comRun \ {index}
    /\ UNCHANGED ncalls

SetupUpdateTotalMass ==
    /\ Idle
    /\ ncalls = 0
    /\ \E index \in Shared :
           /\ Start(1, [Frame("UpdateTotalMass", index) EXCEPT !.pc = "getRootNodeID"])
           /\ massFresh' = massFresh \ {index}
           /\ comRun' = comRun \ {index}
    /\ UNCHANGED ncalls

\* a call may be made: the set-up has ended and fewer than MaxCalls were made
Overlapping == ncalls < MaxCalls /\ (ncalls > 0 \/ Idle)

\* the callers are alike: a call is made by the first caller that is in no call
Free == {p \in Callers : p \notin DOMAIN running /\ \A q \in 1..(p - 1) : q \in DOMAIN running}

ForkNewTree ==
    /\ Overlapping
    /\ ncalls' = ncalls + 1
    /\ MaxRootID(Cur) < MaxIndex
    /\ \E p \in Free, width \in Widths :
           Start(p, [Frame("NewTree", 0) EXCEPT !.pc = "NewTreeMax", !.width = width])
    /\ UNCHANGED <<massFresh, comRun>>

ForkInsertStar ==
    /\ Overlapping
    /\ ncalls' = ncalls + 1
    /\ \E p \in Free, in \in StarInputs, index \in Shared :
           /\ Start(p, InsertStarFrame(Star2D(in), index))
           /\ massFresh' = massFresh \ {index}
           /\ comRun' = comRun \ {index}

ForkUpdateTotalMass ==
    /\ Overlapping
    /\ ncalls' = ncalls + 1
    /\ \E p \in Free, index \in Shared :
           /\ Start(p, [Frame("UpdateTotalMass", index) EXCEPT !.pc = "getRootNodeID"])
           /\ massFresh' = massFresh \ {index}
           /\ comRun' = comRun \ {index}

ForkUpdateCenterOfMass ==
    /\ Overlapping
    /\ ncalls' = ncalls + 1
    /\ \E p \in Free, index \in Shared :
           Start(p, [Frame("UpdateCenterOfMass", index) EXCEPT !.pc = "getRootNodeID"])
    /\ UNCHANGED <<massFresh, comRun>>

ForkCalcAllForces ==
    /\ Overlapping
    /\ ncalls' = ncalls + 1
    /\ \E p \in Free, star \in SharedProbes, galaxyIndex \in Shared, theta \in Thetas :
           Start(p, ForceFrame(star, galaxyIndex, theta))
    /\ UNCHANGED <<massFresh, comRun>>

ForkGenForestTree ==
    /\ Overlapping
    /\ ncalls' = ncalls + 1
    /\ \E p \in Free, index \in Shared :
           Start(p, [Frame("GenForestTree", index) EXCEPT !.pc = "getRootNodeID"])
    /\ UNCHANGED <<massFresh, comRun>>

\* DeleteAllNodes while calls are in progress
RaceDeleteAllNodes ==
    /\ Overlapping
    /\ ncalls' = ncalls + 1
    /\ \E r \in {DeleteAllNodes(Cur)} :
           /\ Tables(r.db)
           /\ last' = [op |-> "DeleteAllNodes", status |-> r.status, width |-> 0]
           /\ called' = IF r.status = "ok" THEN {} ELSE called
    /\ massFresh' = {}
    /\ comRun' = {}
    /\ UNCHANGED <<schema, running>>

\* GetListOfStarIDsTimestep while calls are in progress
RaceGetListOfStarIDsTimestep ==
    /\ ncalls > 0 \/ Idle
    /\ \E timestep \in Shared : \E ord \in Orders(HoldingStar(timestep)) :
        Returned("GetListOfStarIDsTimestep", timestep,
                 GetListOfStarIDsTimestep(ScanNodes(ord), timestep))

\* ---- NewTree
\* SELECT COALESCE(max(root_id), 0) FROM nodes
StepNewTreeMax ==
    \E p \in Callers :
        /\ At(p, "NewTreeMax")
        /\ \E r \in {NewTreeMax(Cur)} :
               Runs(p, r, [running[p] EXCEPT !.pc = "NewTreeInsert", !.max = r.ret])

\* INSERT INTO nodes (box_width, root_id, ...); NewTree returns: to its
\* caller, or into InsertStar (id = getRootNodeID(index))
StepNewTreeInsert ==
    \E p \in Callers :
        /\ At(p, "NewTreeInsert")
        /\ node_seq < MaxNodes
        /\ \E r \in {NewTreeInsert(Cur, IF running[p].op = "NewTree"
                                        THEN running[p].width ELSE DefaultWidth,
                                   running[p].max)} :
               IF r.status = "ok" /\ running[p].op = "NewTree"
               THEN Ends(p, r.db, "ok")
               ELSE Runs(p, r, [running[p] EXCEPT !.pc = "getRootNodeID", !.made = TRUE])

\* ---- InsertStar
StepInsertIntoStars ==
    \E p \in Callers :
        /\ At(p, "insertIntoStars")
        /\ \E r \in {insertIntoStars(Cur, running[p].star)} :
               Runs(p, r, [running[p] EXCEPT !.pc = "lookup", !.starID = r.ret])

\* select case when exists (...) then (select node_id ...) else -1 end
StepLookupRoot ==
    \E p \in Callers :
        /\ At(p, "lookup")
        /\ \E r \in {lookupRootNodeID(Cur, running[p].index)} :
               Runs(p, r, IF r.ret = -1
                          THEN [running[p] EXCEPT !.pc = "NewTreeMax"]
                          ELSE [running[p] EXCEPT !.pc = "containsStar", !.id = r.ret])

\* the root id a pass over the tree starts from gets the first activation
Activation(nodeID) == [nodeID |-> nodeID, subnode |-> <<>>, i |-> 0, acc |-> 0]

ForceActivation(nodeID) == [Activation(nodeID) EXCEPT !.acc = Vec2Zero]

ForestActivation(nodeID) == [Activation(nodeID) EXCEPT !.acc = ""]

\* SELECT node_id FROM nodes WHERE root_id=...: whichever of the rows with
\* that root_id the scan finds first; the first statement of UpdateTotalMass,
\* UpdateCenterOfMass, CalcAllForces and GenForestTree
StepGetRootNodeID ==
    \E p \in Callers :
        /\ At(p, "getRootNodeID")
        /\ \E ord \in Orders(RootRows(Cur, running[p].index)) :
           \E r \in {getRootNodeID(ScanNodes(ord), running[p].index)} :
               Runs(p, r,
                    IF running[p].op = "UpdateTotalMass"
                    THEN [running[p] EXCEPT !.pc = "massSubnodes",
                                            !.stack = <<Activation(r.ret)>>]
                    ELSE IF running[p].op = "UpdateCenterOfMass"
                    THEN [running[p] EXCEPT !.pc = "comSelect",
                                            !.stack = <<Activation(r.ret)>>]
                    ELSE IF running[p].op = "CalcAllForces"
                    THEN [running[p] EXCEPT !.pc = "forceWidthLog",
                                            !.stack = <<ForceActivation(r.ret)>>,
                                            !.visited = {r.ret}]
                    ELSE IF running[p].op = "GenForestTree"
                    THEN [running[p] EXCEPT !.pc = "forestSubnodes",
                                            !.stack = <<ForestActivation(r.ret)>>]
                    ELSE [running[p] EXCEPT !.pc = "containsStar", !.id = r.ret])

\* insertIntoTree: containsStar := containsStar(nodeID)
StepContainsStar ==
    \E p \in Callers :
        /\ At(p, "containsStar")
        /\ \E r \in {containsStar(Cur, running[p].id)} :
               Runs(p, r, [running[p] EXCEPT !.pc = "isLeaf", !.cs = r.ret])

\* insertIntoTree: isLeaf := isLeaf(nodeID), and the if-block the two values select
StepIsLeaf ==
    \E p \in Callers :
        /\ At(p, "isLeaf")
        /\ \E r \in {isLeaf(Cur, running[p].id)} :
               Runs(p, r, [running[p] EXCEPT
                              !.leaf = r.ret,
                              !.arg = running[p].starID,
                              !.pc = IF r.ret /\ running[p].cs THEN "getBoxWidth"
                                     ELSE IF r.ret THEN "directInsert"
                                     ELSE IF running[p].cs THEN "getStarID"
                                     ELSE "GetStar"])

\* the locals of the InsertStar call InsertList makes for its next record
NextRecord(f) ==
    [InsertListFrame(f.file) EXCEPT !.rec = f.rec + 1,
                                    !.star = StarOf[f.file[f.rec + 1]],
                                    !.before = f.before,
                                    !.clean = f.clean]

\* case 2: directInsert(starID, nodeID); insertIntoTree and InsertStar return,
\* InsertList goes on with its next record
StepDirectInsert ==
    \E p \in Callers :
        /\ At(p, "directInsert")
        /\ \E r \in {directInsert(Cur, running[p].starID, running[p].id)} :
               IF r.status = "ok" /\ running[p].op = "InsertList"
                                  /\ running[p].rec < Len(running[p].file)
               THEN /\ Tables(r.db)
                    /\ running' = [running EXCEPT ![p] = NextRecord(running[p])]
                    /\ called' = called \cup {CallOf(running[p], "ok")}
                    /\ UNCHANGED <<schema, last, massFresh, comRun, ncalls>>
               ELSE Ends(p, r.db, r.status)

\* case 1, subdivide: boxWidth := getBoxWidth(nodeID)
StepGetBoxWidth ==
    \E p \in Callers :
        /\ At(p, "getBoxWidth")
        /\ \E r \in {getBoxWidth(Cur, running[p].id)} :
               Runs(p, r, [running[p] EXCEPT !.pc = "getBoxCenter",
                                             !.box.boxWidth = r.ret])

\* boxCenter := getBoxCenter(nodeID)
StepGetBoxCenter ==
    \E p \in Callers :
        /\ At(p, "getBoxCenter")
        /\ \E r \in {getBoxCenter(Cur, running[p].id)} :
               Runs(p, r, [running[p] EXCEPT !.pc = "getNodeDepth",
                                             !.box.boxCenter = r.ret])

\* originalDepth := getNodeDepth(nodeID)
StepGetNodeDepth ==
    \E p \in Callers :
        /\ At(p, "getNodeDepth")
        /\ \E r \in {getNodeDepth(Cur, running[p].id)} :
               Runs(p, r, [running[p] EXCEPT !.pc = "getTimestepNode",
                                             !.box.originalDepth = r.ret])

\* timestep := getTimestepNode(nodeID)
StepGetTimestepNode ==
    \E p \in Callers :
        /\ At(p, "getTimestepNode")
        /\ \E r \in {getTimestepNode(Cur, running[p].id)} :
               Runs(p, r, [running[p] EXCEPT !.pc = "newNode",
                                             !.box.timestep = r.ret])

\* the next of the four newNode(...) calls of subdivide
StepNewNode ==
    \E p \in Callers :
        /\ At(p, "newNode")
        /\ node_seq < MaxNodes
        /\ \E r \in {subdivideNewNode(Cur, running[p].box.boxCenter, running[p].box.boxWidth,
                                      running[p].box.originalDepth, running[p].box.timestep,
                                      Len(running[p].kids) + 1)} :
               Runs(p, r, [running[p] EXCEPT
                              !.pc = IF Len(running[p].kids) = 3 THEN "updateSubnodes"
                                     ELSE "newNode",
                              !.kids = Append(@, r.ret)])

\* subdivide: UPDATE nodes SET subnode=..., isleaf=FALSE, timestep=...
StepUpdateSubnodes ==
    \E p \in Callers :
        /\ At(p, "updateSubnodes")
        /\ \E r \in {subdivideUpdate(Cur, running[p].id, running[p].kids,
                                     running[p].box.timestep)} :
               Runs(p, r, [running[p] EXCEPT !.pc = "getStarID"])

\* cases 1 and 3: blockingStarID := getStarID(nodeID)
StepGetStarID ==
    \E p \in Callers :
        /\ At(p, "getStarID")
        /\ \E r \in {getStarID(Cur, running[p].id)} :
               Runs(p, r, [running[p] EXCEPT !.pc = "GetStar", !.arg = r.ret])

\* GetStar(nil, ...): in the cases 1, 3 and 4 of insertIntoTree, on an
\* occupied leaf in updateCenterOfMassNode and on a subtree that holds a star
\* in CalcAllForcesNode; the call ends here
StepGetStar ==
    \E p \in Callers :
        /\ At(p, "GetStar")
        /\ \E r \in {GetStar(NilDB, Cur, running[p].arg)} :
               /\ r.status # "ok"
               /\ Ends(p, r.db, r.status)

\* ---- UpdateTotalMass
Top(f) == f.stack[Len(f.stack)]

SetTop(f, a) == [f EXCEPT !.stack[Len(f.stack)] = a]

\* the loop of updateTotalMassNode at its i-th subnode id: past the fourth
\* the UPDATE, a nonzero id the call on it, an id 0 the node's own star
MassLoop(f) ==
    IF Top(f).i > 4 THEN [f EXCEPT !.pc = "massUpdate"]
    ELSE IF Top(f).subnode[Top(f).i] # 0
    THEN [f EXCEPT !.pc = "massSubnodes",
                   !.stack = Append(@, Activation(Top(f).subnode[Top(f).i]))]
    ELSE [f EXCEPT !.pc = "massStarID"]

\* SELECT subnode[1], subnode[2], subnode[3], subnode[4] FROM nodes WHERE
\* node_id=...
StepMassSubnodes ==
    \E p \in Callers :
        /\ At(p, "massSubnodes")
        /\ \E r \in {Column(Cur, Top(running[p]).nodeID, "subnode")} :
               Runs(p, r, MassLoop(SetTop(running[p],
                              [Top(running[p]) EXCEPT !.subnode = r.ret, !.i = 1])))

\* starID := getStarID(nodeID)
StepMassStarID ==
    \E p \in Callers :
        /\ At(p, "massStarID")
        /\ \E r \in {getStarID(Cur, Top(running[p]).nodeID)} :
               Runs(p, r, [running[p] EXCEPT
                              !.pc = IF r.ret # 0 THEN "massStarMass" ELSE "massUpdate",
                              !.arg = r.ret])

\* mass := getStarMass(starID); totalmass += mass; break
StepMassStarMass ==
    \E p \in Callers :
        /\ At(p, "massStarMass")
        /\ \E r \in {getStarMass(Cur, running[p].arg)} :
               Runs(p, r, [SetTop(running[p], [Top(running[p]) EXCEPT !.acc = @ + r.ret])
                              EXCEPT !.pc = "massUpdate"])

\* the caller of the innermost updateTotalMassNode after its return:
\* totalmass += (what it returned), and the loop goes to its next id
MassReturn(f) ==
    LET under == [f EXCEPT !.stack = SubSeq(@, 1, Len(@) - 1)]
    IN  MassLoop(SetTop(under, [Top(under) EXCEPT !.acc = @ + Top(f).acc,
                                                  !.i = @ + 1]))

\* UPDATE nodes SET total_mass=... WHERE node_id=...; return totalmass
StepMassUpdate ==
    \E p \in Callers :
        /\ At(p, "massUpdate")
        /\ \E r \in {Update(Cur, Top(running[p]).nodeID,
                            [total_mass |-> Top(running[p]).acc])} :
               IF r.status = "ok" /\ Len(running[p].stack) = 1
               THEN Ends(p, r.db, "ok")
               ELSE Runs(p, r, MassReturn(running[p]))

\* ---- UpdateCenterOfMass
\* the loop of updateCenterOfMassNode goes to its next subnode id: the call
\* on it, or past the fourth the overall centre and the UPDATE
ComNext(f) ==
    IF Top(f).i < 4
    THEN [f EXCEPT !.pc = "comSelect",
                   !.stack = Append(SubSeq(@, 1, Len(@) - 1), [Top(f) EXCEPT !.i = @ + 1])
                             \o <<Activation(Top(f).subnode[Top(f).i + 1])>>]
    ELSE [f EXCEPT !.pc = "comUpdate", !.ret = overallCenter(Top(f).acc)]

\* the next SELECT of updateCenterOfMassNode.  On entry: SELECT subnode[1],
\* ..., subnode[4], star_id FROM nodes WHERE node_id=...  After a subnode
\* returned a centre that is counted: subnodeMass := getNodeTotalMass(subnodeID)
StepComSelect ==
    \E p \in Callers :
        /\ At(p, "comSelect") \/ At(p, "comSubnodeMass")
        /\ IF running[p].pc = "comSelect"
           THEN \E r \in {Column(Cur, Top(running[p]).nodeID, "subnode")} :
                    Runs(p, r,
                         IF r.ret # <<0, 0, 0, 0>>
                         THEN ComNext(SetTop(running[p],
                                  [Top(running[p]) EXCEPT
                                      !.subnode = r.ret,
                                      !.acc = <<Flt(0), Flt(0), Flt(0)>>]))
                         ELSE [running[p] EXCEPT !.pc = "comStarID"])
           ELSE \E r \in {getNodeTotalMass(Cur, Top(running[p]).subnode[Top(running[p]).i])} :
                    Runs(p, r,
                         ComNext(SetTop(running[p],
                             [Top(running[p]) EXCEPT
                                 !.acc = addSubnode(@, running[p].ret, Flt(r.ret))])))

\* starID := getStarID(nodeID): 0 makes the centre (0, 0)
StepComStarID ==
    \E p \in Callers :
        /\ At(p, "comStarID")
        /\ \E r \in {getStarID(Cur, Top(running[p]).nodeID)} :
               Runs(p, r, IF r.ret = 0
                          THEN [running[p] EXCEPT !.pc = "comUpdate", !.ret = Zero2]
                          ELSE [running[p] EXCEPT !.pc = "GetStar", !.arg = r.ret])

\* the caller of the innermost updateCenterOfMassNode after its return: the
\* test on the centre returned
ComReturn(f) ==
    LET under == [f EXCEPT !.stack = SubSeq(@, 1, Len(@) - 1)]
    IN  IF subnodeCounted(f.ret) THEN [under EXCEPT !.pc = "comSubnodeMass"]
        ELSE ComNext(under)

\* UPDATE nodes SET center_of_mass='{%f, %f}' WHERE node_id=...; return
\* centerOfMass
StepComUpdate ==
    \E p \in Callers :
        /\ At(p, "comUpdate")
        /\ \E r \in {updateCenter(Cur, Top(running[p]).nodeID, running[p].ret)} :
               IF r.status = "ok" /\ Len(running[p].stack) = 1
               THEN Ends(p, r.db, "ok")
               ELSE Runs(p, r, ComReturn(running[p]))

\* ---- CalcAllForces
\* CalcAllForcesNode returns: into CalcAllForces, which returns the force, or
\* into the loop of the caller, which adds the force and goes to its next
\* subtree id; the loop passes the ids 0 and stops at an id that is not 0
RECURSIVE ForceLoop(_)
ForceReturn(f) ==
    IF Len(f.stack) = 1 THEN [f EXCEPT !.pc = "return", !.force = Top(f).acc]
    ELSE With([f EXCEPT !.stack = SubSeq(@, 1, Len(@) - 1)], LAMBDA under :
             ForceLoop(SetTop(under, [Top(under) EXCEPT !.acc = Vec2Add(@, Top(f).acc),
                                                        !.i = @ + 1])))

ForceLoop(f) ==
    IF Top(f).i > 4 THEN ForceReturn(f)
    ELSE IF Top(f).subnode[Top(f).i] = 0
    THEN ForceLoop(SetTop(f, [Top(f) EXCEPT !.i = @ + 1]))
    ELSE [f EXCEPT !.pc = "forceStarID"]

\* getBoxWidth(nodeID): for the log line on entry, for nodeWidth and as d in
\* calcTheta
StepForceWidth ==
    \E p \in Callers :
        /\ At(p, "forceWidthLog") \/ At(p, "forceWidth") \/ At(p, "forceThetaWidth")
        /\ \E r \in {getBoxWidth(Cur, Top(running[p]).nodeID)} :
               Runs(p, r, [running[p] EXCEPT
                              !.pc = IF running[p].pc = "forceWidthLog" THEN "forceWidth"
                                     ELSE IF running[p].pc = "forceWidth" THEN "forceThetaWidth"
                                     ELSE "forceCenter",
                              !.box.boxWidth = r.ret])

\* as StepForceCenter, but a node that is not walked acts on the star as one
\* body: its total mass at its centre of mass
StepForceCenterAggregate ==
    \E p \in Callers :
        /\ At(p, "forceCenter")
        /\ \E r \in {getNodeCenterOfMass(Cur, Top(running[p]).nodeID)} :
               Proceeds(p, r,
                   IF thetaLess(calcThetaSquared(running[p].box.boxWidth,
                                                 distanceSquared(running[p].star, r.ret)),
                                running[p].theta)
                   THEN ForceReturn(SetTop(running[p],
                            [Top(running[p]) EXCEPT !.acc =
                                calcForce(running[p].star,
                                          [x |-> r.ret[1], y |-> r.ret[2],
                                           m |-> nodes[Top(running[p]).nodeID].total_mass])]))
                   ELSE [running[p] EXCEPT !.pc = "forceSubtrees"])

\* distance: node = getNodeCenterOfMass(nodeID); then localTheta < theta
\* returns the force (0, 0), otherwise the subtrees are walked
StepForceCenter ==
    \E p \in Callers :
        /\ At(p, "forceCenter")
        /\ \E r \in {getNodeCenterOfMass(Cur, Top(running[p]).nodeID)} :
               Proceeds(p, r,
                   IF thetaLess(calcThetaSquared(running[p].box.boxWidth,
                                                 distanceSquared(running[p].star, r.ret)),
                                running[p].theta)
                   THEN ForceReturn(running[p])
                   ELSE [running[p] EXCEPT !.pc = "forceSubtrees"])

\* subtreeIDs = getSubtreeIDs(nodeID)
StepForceSubtrees ==
    \E p \in Callers :
        /\ At(p, "forceSubtrees")
        /\ \E r \in {getSubtreeIDs(Cur, Top(running[p]).nodeID)} :
               Proceeds(p, r, ForceLoop(SetTop(running[p],
                                  [Top(running[p]) EXCEPT !.subnode = r.ret, !.i = 1])))

\* subtreeStarId := getStarID(subtreeID): a star there is read with
\* GetStar(nil, ...); then CalcAllForcesNode(star, subtreeID, theta)
StepForceStarID ==
    \E p \in Callers :
        /\ At(p, "forceStarID")
        /\ \E r \in {getStarID(Cur, Top(running[p]).subnode[Top(running[p]).i])} :
               Runs(p, r,
                    IF r.ret # 0 THEN [running[p] EXCEPT !.pc = "GetStar", !.arg = r.ret]
                    ELSE [running[p] EXCEPT
                             !.pc = "forceWidthLog",
                             !.stack = Append(@, ForceActivation(
                                           Top(running[p]).subnode[Top(running[p]).i])),
                             !.visited = @ \cup {Top(running[p]).subnode[Top(running[p]).i]}])

\* ---- GenForestTree
\* genForestTreeNode returns its string and "]": into GenForestTree, or into
\* the loop of the caller, which appends it and goes to its next subnode id
RECURSIVE ForestLoop(_)
ForestReturn(f) ==
    IF Len(f.stack) = 1 THEN [f EXCEPT !.pc = "return", !.str = Top(f).acc \o "]"]
    ELSE With([f EXCEPT !.stack = SubSeq(@, 1, Len(@) - 1)], LAMBDA under :
             ForestLoop(SetTop(under, [Top(under) EXCEPT !.acc = @ \o Top(f).acc \o "]",
                                                         !.i = @ + 1])))

ForestLoop(f) ==
    IF Top(f).i > 4 THEN ForestReturn(f)
    ELSE IF Top(f).subnode[Top(f).i] # 0 THEN [f EXCEPT !.pc = "forestCenter"]
    ELSE [f EXCEPT !.pc = "forestStarID"]

\* SELECT subnode[1], subnode[2], subnode[3], subnode[4] FROM nodes WHERE
\* node_id=...; returnString += "["
StepForestSubnodes ==
    \E p \in Callers :
        /\ At(p, "forestSubnodes")
        /\ \E r \in {Column(Cur, Top(running[p]).nodeID, "subnode")} :
               Runs(p, r, ForestLoop(SetTop(running[p],
                              [Top(running[p]) EXCEPT !.subnode = r.ret, !.i = 1,
                                                      !.acc = "["])))

\* a subnode id that is not 0: centerOfMass := getCenterOfMass(nodeID)
StepForestCenter ==
    \E p \in Callers :
        /\ At(p, "forestCenter")
        /\ \E r \in {getCenterOfMass(Cur, Top(running[p]).nodeID)} :
               Runs(p, r, [running[p] EXCEPT !.pc = "forestMass", !.ret = r.ret])

\* mass := getNodeTotalMass(nodeID); the three numbers are appended and
\* genForestTreeNode(subnodeID) is called
StepForestMass ==
    \E p \in Callers :
        /\ At(p, "forestMass")
        /\ \E r \in {getNodeTotalMass(Cur, Top(running[p]).nodeID)} :
               Runs(p, r,
                    [SetTop(running[p],
                            [Top(running[p]) EXCEPT
                                !.acc = @ \o forestAggregates(running[p].ret, r.ret)])
                        EXCEPT !.pc = "forestSubnodes",
                               !.stack = Append(@, ForestActivation(
                                             Top(running[p]).subnode[Top(running[p]).i]))])

\* getStarID(nodeID) at a subnode id 0: in the test (0 appends "[0 0]" and
\* ends the loop), in getStarCoordinates and for starID
StepForestStarID ==
    \E p \in Callers :
        /\ At(p, "forestStarID") \/ At(p, "forestCoordStarID") \/ At(p, "forestStarIDAgain")
        /\ \E r \in {getStarID(Cur, Top(running[p]).nodeID)} :
               Proceeds(p, r,
                   IF running[p].pc = "forestCoordStarID"
                   THEN [running[p] EXCEPT !.pc = "forestCoords", !.arg = r.ret]
                   ELSE IF running[p].pc = "forestStarIDAgain"
                   THEN [running[p] EXCEPT !.pc = "forestStarMass", !.arg = r.ret]
                   ELSE IF r.ret # 0 THEN [running[p] EXCEPT !.pc = "forestCoordStarID"]
                   ELSE ForestReturn(SetTop(running[p],
                            [Top(running[p]) EXCEPT !.acc = @ \o "[0 0]"])))

\* getStarCoordinates: SELECT x, y FROM stars WHERE star_id=...
StepForestCoords ==
    \E p \in Callers :
        /\ At(p, "forestCoords")
        /\ \E r \in {selectStarCoordinates(Cur, running[p].arg)} :
               Runs(p, r, [running[p] EXCEPT !.pc = "forestStarIDAgain", !.ret = r.ret])

\* mass := getStarMass(starID); "[x y m]" is appended and the loop ends
StepForestStarMass ==
    \E p \in Callers :
        /\ At(p, "forestStarMass")
        /\ \E r \in {getStarMass(Cur, running[p].arg)} :
               Proceeds(p, r, ForestReturn(SetTop(running[p],
                                  [Top(running[p]) EXCEPT
                                      !.acc = @ \o forestStar(running[p].ret, r.ret)])))

\* ----------------------------------------------------------- specifications
\* callers that set the tables up, build trees and wipe them
Next ==
    \/ DoInitStarsTable
    \/ DoInitNodesTable
    \/ CallNewTree
    \/ CallInsertStar
    \/ DoDeleteAllNodes
    \/ StepInsertIntoStars
    \/ StepLookupRoot
    \/ StepNewTreeMax
    \/ StepNewTreeInsert
    \/ StepGetRootNodeID
    \/ StepContainsStar
    \/ StepIsLeaf
    \/ StepDirectInsert
    \/ StepGetBoxWidth
    \/ StepGetBoxCenter
    \/ StepGetNodeDepth
    \/ StepGetTimestepNode
    \/ StepNewNode
    \/ StepUpdateSubnodes
    \/ StepGetStarID
    \/ StepGetStar

Spec == Init /\ [][Next]_vars

\* callers that insert stars and run the two aggregation passes
NextAgg ==
    \/ DoInitStarsTable
    \/ DoInitNodesTable
    \/ CallInsertStar
    \/ CallUpdateTotalMass
    \/ CallUpdateCenterOfMass
    \/ StepInsertIntoStars
    \/ StepLookupRoot
    \/ StepNewTreeMax
    \/ StepNewTreeInsert
    \/ StepGetRootNodeID
    \/ StepContainsStar
    \/ StepIsLeaf
    \/ StepDirectInsert
    \/ StepGetBoxWidth
    \/ StepGetBoxCenter
    \/ StepGetNodeDepth
    \/ StepGetTimestepNode
    \/ StepNewNode
    \/ StepUpdateSubnodes
    \/ StepGetStarID
    \/ StepGetStar
    \/ StepMassSubnodes
    \/ StepMassStarID
    \/ StepMassStarMass
    \/ StepMassUpdate
    \/ StepComSelect
    \/ StepComStarID
    \/ StepComUpdate

SpecAgg == Init /\ [][NextAgg]_vars

\* callers that insert stars and read the lists of a tree
NextList ==
    \/ DoInitStarsTable
    \/ DoInitNodesTable
    \/ CallInsertStar
    \/ DoGetListOfStarsTree
    \/ DoGetListOfStarIDsTimestep
    \/ StepInsertIntoStars
    \/ StepLookupRoot
    \/ StepNewTreeMax
    \/ StepNewTreeInsert
    \/ StepGetRootNodeID
    \/ StepContainsStar
    \/ StepIsLeaf
    \/ StepDirectInsert
    \/ StepGetBoxWidth
    \/ StepGetBoxCenter
    \/ StepGetNodeDepth
    \/ StepGetTimestepNode
    \/ StepNewNode
    \/ StepUpdateSubnodes
    \/ StepGetStarID
    \/ StepGetStar

SpecList == Init /\ [][NextList]_vars

\* callers that insert stars, aggregate and ask for the force on a star
NextForce ==
    \/ DoInitStarsTable
    \/ DoInitNodesTable
    \/ CallInsertStar
    \/ CallUpdateTotalMass
    \/ CallUpdateCenterOfMass
    \/ CallCalcAllForces
    \/ StepInsertIntoStars
    \/ StepLookupRoot
    \/ StepNewTreeMax
    \/ StepNewTreeInsert
    \/ StepGetRootNodeID
    \/ StepContainsStar
    \/ StepIsLeaf
    \/ StepDirectInsert
    \/ StepGetBoxWidth
    \/ StepGetBoxCenter
    \/ StepGetNodeDepth
    \/ StepGetTimestepNode
    \/ StepNewNode
    \/ StepUpdateSubnodes
    \/ StepGetStarID
    \/ StepGetStar
    \/ StepMassSubnodes
    \/ StepMassStarID
    \/ StepMassStarMass
    \/ StepMassUpdate
    \/ StepComSelect
    \/ StepComStarID
    \/ StepComUpdate
    \/ StepForceWidth
    \/ StepForceCenter
    \/ StepForceSubtrees
    \/ StepForceStarID

SpecForce == Init /\ [][NextForce]_vars

\* callers that insert stars, aggregate and render a tree
NextRender ==
    \/ DoInitStarsTable
    \/ DoInitNodesTable
    \/ CallInsertStar
    \/ CallUpdateTotalMass
    \/ CallUpdateCenterOfMass
    \/ CallGenForestTree
    \/ StepInsertIntoStars
    \/ StepLookupRoot
    \/ StepNewTreeMax
    \/ StepNewTreeInsert
    \/ StepGetRootNodeID
    \/ StepContainsStar
    \/ StepIsLeaf
    \/ StepDirectInsert
    \/ StepGetBoxWidth
    \/ StepGetBoxCenter
    \/ StepGetNodeDepth
    \/ StepGetTimestepNode
    \/ StepNewNode
    \/ StepUpdateSubnodes
    \/ StepGetStarID
    \/ StepGetStar
    \/ StepMassSubnodes
    \/ StepMassStarID
    \/ StepMassStarMass
    \/ StepMassUpdate
    \/ StepComSelect
    \/ StepComStarID
    \/ StepComUpdate
    \/ StepForestSubnodes
    \/ StepForestCenter
    \/ StepForestMass
    \/ StepForestStarID
    \/ StepForestCoords
    \/ StepForestStarMass

SpecRender == Init /\ [][NextRender]_vars

\* callers that ingest files and wipe the tables
NextIngest ==
    \/ DoInitStarsTable
    \/ DoInitNodesTable
    \/ CallInsertList
    \/ DoDeleteAllStars
    \/ DoDeleteAllNodes
    \/ StepInsertIntoStars
    \/ StepLookupRoot
    \/ StepNewTreeMax
    \/ StepNewTreeInsert
    \/ StepGetRootNodeID
    \/ StepContainsStar
    \/ StepIsLeaf
    \/ StepDirectInsert
    \/ StepGetBoxWidth
    \/ StepGetBoxCenter
    \/ StepGetNodeDepth
    \/ StepGetTimestepNode
    \/ StepNewNode
    \/ StepUpdateSubnodes
    \/ StepGetStarID
    \/ StepGetStar

SpecIngest == Init /\ [][NextIngest]_vars

\* callers that build trees and wipe either table
NextWipe ==
    \/ DoInitStarsTable
    \/ DoInitNodesTable
    \/ CallNewTree
    \/ CallInsertStar
    \/ DoDeleteAllStars
    \/ DoDeleteAllNodes
    \/ StepInsertIntoStars
    \/ StepLookupRoot
    \/ StepNewTreeMax
    \/ StepNewTreeInsert
    \/ StepGetRootNodeID
    \/ StepContainsStar
    \/ StepIsLeaf
    \/ StepDirectInsert
    \/ StepGetBoxWidth
    \/ StepGetBoxCenter
    \/ StepGetNodeDepth
    \/ StepGetTimestepNode
    \/ StepNewNode
    \/ StepUpdateSubnodes
    \/ StepGetStarID
    \/ StepGetStar

SpecWipe == Init /\ [][NextWipe]_vars

\* callers that do not wait for one another: their calls overlap, statement by statement
NextConc ==
    \/ DoInitStarsTable
    \/ DoInitNodesTable
    \/ SetupInsertStar
    \/ SetupUpdateTotalMass
    \/ ForkNewTree
    \/ ForkInsertStar
    \/ ForkUpdateTotalMass
    \/ ForkUpdateCenterOfMass
    \/ ForkCalcAllForces
    \/ ForkGenForestTree
    \/ RaceDeleteAllNodes
    \/ RaceGetListOfStarIDsTimestep
    \/ StepInsertIntoStars
    \/ StepLookupRoot
    \/ StepNewTreeMax
    \/ StepNewTreeInsert
    \/ StepGetRootNodeID
    \/ StepContainsStar
    \/ StepIsLeaf
    \/ StepDirectInsert
    \/ StepGetBoxWidth
    \/ StepGetBoxCenter
    \/ StepGetNodeDepth
    \/ StepGetTimestepNode
    \/ StepNewNode
    \/ StepUpdateSubnodes
    \/ StepGetStarID
    \/ StepGetStar
    \/ StepMassSubnodes
    \/ StepMassStarID
    \/ StepMassStarMass
    \/ StepMassUpdate
    \/ StepComSelect
    \/ StepComStarID
    \/ StepComUpdate
    \/ StepForceWidth
    \/ StepForceCenter
    \/ StepForceSubtrees
    \/ StepForceStarID
    \/ StepForestSubnodes
    \/ StepForestCenter
    \/ StepForestMass
    \/ StepForestStarID
    \/ StepForestCoords
    \/ StepForestStarMass

SpecConc == Init /\ [][NextConc]_vars


\* ------------------------------------------------- notions the claims use
Subtree(D, k) == Closure(D, {k}, {}) \cap DOMAIN D.nodes

TreeNodes(D, index) == UNION {Subtree(D, k) : k \in RootRows(D, index)}

\* the ids of the stars held by the nodes of S
StarsHeld(D, S) == {D.nodes[k].star_id : k \in S} \ {0}

\* the tables after the step
CurNext == DB(stars', star_seq', nodes', node_seq', schema')

\* both tables exist with the columns the queries name
Deployed == schema = DeployedTables

AfterCompletedInsert == last.op = "InsertStar" /\ last.status = "ok"

\* the calls that end with the step, and the InsertStar calls among them
Ending == DOMAIN running \ DOMAIN running'

EndingInsert == {p \in Ending : running[p].op = "InsertStar"}

\* the InsertStar call that ran last
LastCall == CHOOSE c \in called : c.sid = star_seq

\* every subdivided node has an even width: Half is exact where it is used
HalvingExact == \A k \in DOMAIN nodes : ~nodes[k].isleaf => nodes[k].box_width % 2 = 0

\* ------------------------------------------------------------------ claims

\* C1: InsertStar(star, i) for an index i without a root completes, leaves a
\* tree i whose root has centre (0,0) and width 1000, and returns the id of a
\* star held by a node of tree i, whatever i is.
\* The calls in question are those that found no root with the index and made
\* a tree (NewTree returned).
C1_InsertCreatesTreeAnyIndex ==
    [][ \A p \in EndingInsert :
            running[p].made =>
                /\ last'.status = "ok"
                /\ \E k \in RootRows(CurNext, running[p].index) :
                       /\ nodes'[k].box_center = <<0, 0>>
                       /\ nodes'[k].box_width = 1000
                       /\ running[p].starID \in StarsHeld(CurNext, Subtree(CurNext, k)) ]_vars

\* C2: a NewTree(width) call adds exactly one row, a root with index
\* max(existing root index) + 1 (1 on an empty table), centre (0,0), the given
\* width, depth 0, leaf, no star, no children; and no two roots ever carry the
\* same tree index.  The tables are the deployed ones: on a nodes table made
\* by InitNodesTable the INSERT of NewTree names a column the table lacks.
UniqueRootIndex ==
    \A j, k \in DOMAIN nodes :
        (j # k /\ nodes[j].root_id # 0) => nodes[j].root_id # nodes[k].root_id

NewTreeAddsOneRoot ==
    (last'.op = "NewTree" /\ Deployed) =>
        \E k \in DOMAIN nodes' \ DOMAIN nodes :
            /\ last'.status = "ok"
            /\ DOMAIN nodes' = DOMAIN nodes \cup {k}
            /\ \A j \in DOMAIN nodes : nodes'[j] = nodes[j]
            /\ nodes'[k].root_id =
                   1 + (IF DOMAIN nodes = {} THEN 0
                        ELSE Max({nodes[j].root_id : j \in DOMAIN nodes}))
            /\ nodes'[k].box_center = <<0, 0>>
            /\ nodes'[k].box_width = last'.width
            /\ nodes'[k].depth = 0
            /\ nodes'[k].isleaf
            /\ nodes'[k].star_id = 0
            /\ nodes'[k].subnode = <<0, 0, 0, 0>>

C2_NewTreeFreshIndex == [](UniqueRootIndex) /\ [][NewTreeAddsOneRoot]_vars

C2_Witness ==
    /\ last.op = "NewTree"
    /\ last.status = "ok"
    /\ \E j, k \in DOMAIN nodes : nodes[j].root_id = 1 /\ nodes[k].root_id = 2

\* C3: after a completed InsertStar every node has either four child ids 0
\* and is a leaf, or four nonzero child ids of four distinct existing nodes
\* and is no leaf.
ChildrenAllOrNone(k) ==
    \/ /\ nodes[k].subnode = <<0, 0, 0, 0>>
       /\ nodes[k].isleaf
    \/ /\ \A i \in 1..4 : nodes[k].subnode[i] # 0 /\ nodes[k].subnode[i] \in DOMAIN nodes
       /\ Cardinality({nodes[k].subnode[i] : i \in 1..4}) = 4
       /\ ~nodes[k].isleaf

C3_ChildrenAllOrNone ==
    AfterCompletedInsert => \A k \in DOMAIN nodes : ChildrenAllOrNone(k)

C3_Witness ==
    /\ AfterCompletedInsert
    /\ \E k \in DOMAIN nodes : ~nodes[k].isleaf

\* C4: after a completed InsertStar every node that holds a star is a leaf.
C4_StarsOnlyInLeaves ==
    AfterCompletedInsert =>
        \A k \in DOMAIN nodes : nodes[k].star_id # 0 => nodes[k].isleaf

\* C5: after a completed InsertStar into tree T, every star an InsertStar
\* call put into T is the star_id of exactly one node, and that node is
\* reached from the root of T.
C5_EveryStarStoredOnce ==
    AfterCompletedInsert =>
        \A c \in called :
            c.index = LastCall.index =>
                /\ Cardinality({k \in DOMAIN nodes : nodes[k].star_id = c.sid}) = 1
                /\ c.sid \in StarsHeld(Cur, TreeNodes(Cur, c.index))

\* C6: a child has half the width of its parent and its centre is a quarter
\* of the parent's width away from the parent's centre in x and in y.
C6_ChildBoxGeometry ==
    \A p \in DOMAIN nodes : \A c \in ChildIDs(Cur, p) \cap DOMAIN nodes :
        /\ 2 * nodes[c].box_width = nodes[p].box_width
        /\ 4 * Abs(nodes[c].box_center[1] - nodes[p].box_center[1]) = nodes[p].box_width
        /\ 4 * Abs(nodes[c].box_center[2] - nodes[p].box_center[2]) = nodes[p].box_width

\* C7: when the stars put into a tree lie inside its root box, every star held
\* in the subtree of a node N lies inside the box of N.
Place(star) == <<star.x, star.y>>

\* the finite place pos lies in the box of node k
PlaceInBox(pos, k) ==
    \A i \in 1..2 :
        2 * Abs(pos[i].n - nodes[k].box_center[i] * pos[i].d) <= nodes[k].box_width * pos[i].d

InBox(sid, k) == PlaceInBox(Place(stars[sid]), k)

C7_StarsInsideNodeBox ==
    \A r \in DOMAIN nodes :
        (/\ Idle
         /\ nodes[r].root_id # 0
         /\ \A c \in called : c.index = nodes[r].root_id => InBox(c.sid, r))
        => \A n \in Subtree(Cur, r) : \A sid \in StarsHeld(Cur, Subtree(Cur, n)) :
               InBox(sid, n)

C7_Witness ==
    /\ AfterCompletedInsert
    /\ \E r \in DOMAIN nodes :
           /\ nodes[r].root_id # 0
           /\ ~nodes[r].isleaf
           /\ nodes[r].star_id # 0
           /\ \A c \in called : c.index = nodes[r].root_id => InBox(c.sid, r)
           /\ \E c \in called : c.index = nodes[r].root_id

\* C8: after UpdateTotalMass(T) every node of T has total_mass equal to the
\* sum of the masses of the stars held in its subtree.
RECURSIVE SumOver(_, _)
SumOver(S, f) ==
    IF S = {} THEN 0
    ELSE With(CHOOSE j \in S : TRUE, LAMBDA k :
         With(S \ {k}, LAMBDA rest : f[k] + SumOver(rest, f)))

MassOf == [sid \in DOMAIN stars |-> stars[sid].m]

C8_TotalMassIsSubtreeSum ==
    \A T \in massFresh : \A n \in TreeNodes(Cur, T) :
        nodes[n].total_mass = SumOver(StarsHeld(Cur, Subtree(Cur, n)), MassOf)

\* C9: after UpdateTotalMass(T) and then UpdateCenterOfMass(T), every node of
\* T whose subtree holds a star has center_of_mass equal to the mass-weighted
\* mean position of the stars of its subtree.
RECURSIVE FSumOver(_, _)
FSumOver(S, f) ==
    IF S = {} THEN Flt(0)
    ELSE With(CHOOSE j \in S : TRUE, LAMBDA k :
         With(S \ {k}, LAMBDA rest : FAdd(f[k], FSumOver(rest, f))))

WeightedX == [sid \in DOMAIN stars |-> FMul(stars[sid].x, Flt(stars[sid].m))]

WeightedY == [sid \in DOMAIN stars |-> FMul(stars[sid].y, Flt(stars[sid].m))]

MeanPosition(S) ==
    << FDiv(FSumOver(S, WeightedX), Flt(SumOver(S, MassOf))),
       FDiv(FSumOver(S, WeightedY), Flt(SumOver(S, MassOf))) >>

C9_CenterOfMassIsWeightedMean ==
    \A T \in comRun : \A n \in TreeNodes(Cur, T) :
        LET S == StarsHeld(Cur, Subtree(Cur, n))
        IN  S # {} => nodes[n].center_of_mass = MeanPosition(S)

\* C10: two trees into which the same stars, at pairwise distinct positions,
\* were inserted have after both aggregation passes the same total_mass and
\* the same center_of_mass at their roots.
CallsInto(T) == {c \in called : c.index = T}

InsertedInto(T) == {<<stars[c.sid].x, stars[c.sid].y, stars[c.sid].m>> : c \in CallsInto(T)}

DistinctPositions(T) ==
    \A c1, c2 \in CallsInto(T) :
        c1 # c2 => <<stars[c1.sid].x, stars[c1.sid].y>> # <<stars[c2.sid].x, stars[c2.sid].y>>

C10_OrderIndependentAggregates ==
    \A T1, T2 \in comRun :
        (/\ T1 # T2
         /\ CallsInto(T1) # {}
         /\ InsertedInto(T1) = InsertedInto(T2)
         /\ DistinctPositions(T1)
         /\ DistinctPositions(T2))
        => \A r1 \in RootRows(Cur, T1), r2 \in RootRows(Cur, T2) :
               /\ nodes[r1].total_mass = nodes[r2].total_mass
               /\ nodes[r1].center_of_mass = nodes[r2].center_of_mass

\* C11: GetListOfStarsTree(T) and GetListOfStarIDsTimestep(T) return the stars
\* that completed InsertStar calls put into tree T, each once and with the
\* attributes they were inserted with, and no star of another tree.
AllCompleted == \A c \in called : c.status = "ok"

CompletedInto(T) == {c \in called : c.index = T /\ c.status = "ok"}

Count(seq, v) == Cardinality({i \in DOMAIN seq : seq[i] = v})

C11_ListsOfATree ==
    /\ (last.op = "GetListOfStarsTree" /\ Deployed) =>
           /\ last.status = "ok"
           /\ Len(last.ret) = Cardinality(CompletedInto(last.index))
           /\ \A c \in CompletedInto(last.index) :
                  Count(last.ret, c.star) =
                      Cardinality({e \in CompletedInto(last.index) : e.star = c.star})
    /\ (last.op = "GetListOfStarIDsTimestep" /\ Deployed) =>
           /\ last.status = "ok"
           /\ \A c \in CompletedInto(last.index) : Count(last.ret, c.sid) = 1
           /\ \A i \in DOMAIN last.ret :
                  \E c \in CompletedInto(last.index) : c.sid = last.ret[i]

C11_Witness ==
    /\ last.op = "GetListOfStarsTree"
    /\ AllCompleted
    /\ Len(last.ret) = 1
    /\ \A T \in Indexes : CallsInto(T) # {}

\* C12: on an aggregated tree T, CalcAllForces(star, T, theta) prunes nothing:
\* it is called on every node of T and returns the sum of the pair
\* contributions of all stars held in T other than the probe, for every theta.
RECURSIVE DirectSum(_, _)
DirectSum(S, star) ==
    IF S = {} THEN Vec2Zero
    ELSE With(CHOOSE j \in S : TRUE, LAMBDA sid :
         With(S \ {sid}, LAMBDA rest :
             Vec2Add(calcForce(stars[sid], star), DirectSum(rest, star))))

\* the stars of S that are not at the probe's place
OtherThan(S, star) ==
    {sid \in S : <<stars[sid].x, stars[sid].y>> # <<star.x, star.y>>}

Aggregated(T) == T \in massFresh /\ T \in comRun

C12_WalkNeverPrunes ==
    (last.op = "CalcAllForces" /\ Aggregated(last.index)) =>
        /\ last.status = "ok"
        /\ last.ret.visited = TreeNodes(Cur, last.index)
        /\ last.ret.force =
               DirectSum(OtherThan(StarsHeld(Cur, TreeNodes(Cur, last.index)),
                                   last.star), last.star)

\* C13: CalcAllForces adds no pair contribution between the probe and its own
\* stored entry, whatever the velocity slots of the probe and of the row
\* hold: no component of the force it returns is NaN (no pair force at
\* distance 0 was computed), and on a tree that holds the probe's entry and
\* no other star it returns (0,0).
OwnEntries(S, star) ==
    {sid \in S : <<stars[sid].x, stars[sid].y, stars[sid].m>> = <<star.x, star.y, star.m>>}

\* tree T holds a star, and every star it holds is an entry of the probe
HoldsOnlyProbe(T, star) ==
    /\ StarsHeld(Cur, TreeNodes(Cur, T)) # {}
    /\ OwnEntries(StarsHeld(Cur, TreeNodes(Cur, T)), star) = StarsHeld(Cur, TreeNodes(Cur, T))

C13_NoSelfInteraction ==
    last.op = "CalcAllForces" =>
        /\ last.ret.force[1] # LNaN
        /\ last.ret.force[2] # LNaN
        /\ (last.status = "ok" /\ HoldsOnlyProbe(last.index, last.star)) =>
               last.ret.force = Vec2Zero

\* CalcAllForces returned for a probe whose entry, with another value in a
\* velocity slot, is the one star of an aggregated tree; the walk went on to
\* the subtree ids of the root
C13_Witness ==
    /\ last.op = "CalcAllForces"
    /\ last.status = "ok"
    /\ HoldsOnlyProbe(last.index, last.star)
    /\ \E sid \in StarsHeld(Cur, TreeNodes(Cur, last.index)) : stars[sid].vx # last.star.vx
    /\ last.index \in massFresh
    /\ last.theta = Frac(1, 2)
    /\ last.ret.visited = RootRows(Cur, last.index)

\* C15: InsertStar of a star at the place of a star already held in the same
\* tree ends: it completes, or it fails with a Collocated error.
C15_CollocatedInsertEnds ==
    [][ \A p \in EndingInsert :
            (\E sid \in StarsHeld(Cur, TreeNodes(Cur, running[p].index)) \cap DOMAIN stars :
                 <<stars[sid].x, stars[sid].y>> = <<running[p].star.x, running[p].star.y>>)
            => last'.status \in {"ok", "collocated"} ]_vars

\* C16: GenForestTree(T) renders an internal node as one bracket holding its
\* com.x, com.y and total_mass once and then its four children in order, an
\* occupied leaf as "[x y m]" and an empty leaf as "[0 0]".
RECURSIVE ForestOf(_)
ForestOf(k) ==
    IF nodes[k].subnode # <<0, 0, 0, 0>>
    THEN "[" \o Fmt0(nodes[k].center_of_mass[1]) \o " "
             \o Fmt0(nodes[k].center_of_mass[2]) \o " "
             \o Fmt0(Flt(nodes[k].total_mass))
             \o " " \o ForestOf(nodes[k].subnode[1])
             \o " " \o ForestOf(nodes[k].subnode[2])
             \o " " \o ForestOf(nodes[k].subnode[3])
             \o " " \o ForestOf(nodes[k].subnode[4]) \o "]"
    ELSE IF nodes[k].star_id # 0
    THEN "[" \o Fmt0(stars[nodes[k].star_id].x) \o " "
             \o Fmt0(stars[nodes[k].star_id].y) \o " "
             \o Fmt0(Flt(stars[nodes[k].star_id].m)) \o "]"
    ELSE "[0 0]"

C16_ForestRendering ==
    (last.op = "GenForestTree" /\ last.status = "ok") =>
        \A k \in RootRows(Cur, last.index) : last.ret = ForestOf(k)

\* C17: InsertList stops at a malformed record: when the x or y field of a
\* record is no number, no star is inserted for it or for a later record.
Malformed(file) ==
    {i \in DOMAIN file : ParseFloat(file[i][1]).err \/ ParseFloat(file[i][2]).err}

C17_IngestStopsAtMalformed ==
    (last.op = "InsertList" /\ Deployed /\ Malformed(last.file) # {}) =>
        \A i \in Malformed(last.file) : star_seq - last.before < i

\* C18: while an InsertStar on tree T is in progress, an operation that runs
\* on T at the same time does not see an intermediate state of it: no node of
\* T that is no leaf and holds a star, no star id held by two nodes.
InProgressOn(T) ==
    \E p \in DOMAIN running :
        /\ running[p].op = "InsertStar"
        /\ running[p].index = T
        /\ running[p].clean
        /\ running[p].pc # "insertIntoStars"

\* the step is a GetListOfStarIDsTimestep(T) of a caller
ReadsTree(T) ==
    /\ last'.op = "GetListOfStarIDsTimestep"
    /\ last'.index = T
    /\ last.op # last'.op \/ last' # last

C18_NoIntermediateStateSeen ==
    [][ \A T \in Indexes :
            (ReadsTree(T) /\ InProgressOn(T)) => ~Intermediate(Cur, T) ]_vars

\* C20: when InsertStar calls do not overlap, insertIntoTree is never called
\* on a node that is no leaf and holds a star.
\* A call is in that branch when it read containsStar = true and
\* isLeaf = false and is at the getStarID of the branch.
C20_CaseThreeUnreachable ==
    \A p \in DOMAIN running :
        ~(/\ running[p].op = "InsertStar"
          /\ running[p].pc = "getStarID"
          /\ running[p].cs
          /\ ~running[p].leaf)

\* C21: InsertStar of a star that lies inside the root box of its tree, at a
\* place where no star of the tree is, completes.
\* The stars of the tree at the last statement of a call that does not
\* complete are those the tree held when the call began.
C21_InsertOfDistinctStarEnds ==
    [][ \A p \in EndingInsert : \A k \in RootRows(Cur, running[p].index) :
            (/\ PlaceInBox(Place(running[p].star), k)
             /\ \A sid \in StarsHeld(Cur, Subtree(Cur, k)) :
                    <<stars[sid].x, stars[sid].y>> # <<running[p].star.x, running[p].star.y>>)
            => last'.status = "ok" ]_vars

\* C22: every nonzero star_id held by a node is the id of a row of the stars
\* table, whatever InsertStar, NewTree, DeleteAllStars and DeleteAllNodes
\* calls came before.
C22_NodesHoldExistingStars ==
    \A k \in DOMAIN nodes :
        nodes[k].star_id # 0 => nodes[k].star_id \in DOMAIN stars

\* C24: a call on tree T leaves the other trees alone. A statement of
\* InsertStar(star, T) on an existing tree T, of UpdateTotalMass(T) or of
\* UpdateCenterOfMass(T) creates, deletes and changes no node whose tree index
\* (the timestep column) differs from T, every node it creates carries T, and
\* every node reached from a root carries the tree index of that root.
OtherTreesKept(T) ==
    /\ \A k \in DOMAIN nodes :
           nodes[k].timestep # T => k \in DOMAIN nodes' /\ nodes'[k] = nodes[k]
    /\ \A k \in DOMAIN nodes' :
           nodes'[k].timestep # T => k \in DOMAIN nodes /\ nodes[k] = nodes'[k]

CreatedInTree(T) == \A k \in DOMAIN nodes' \ DOMAIN nodes : nodes'[k].timestep = T

IndexConstantBelowRoots ==
    \A r \in DOMAIN nodes :
        nodes[r].root_id # 0 =>
            \A k \in Subtree(Cur, r) : nodes[k].timestep = nodes[r].root_id

\* caller p is in a call on the existing tree T and the step is a statement of it
ActsOn(p, T) ==
    /\ p \in DOMAIN running
    /\ running[p].index = T
    /\ \/ running[p].op \in {"UpdateTotalMass", "UpdateCenterOfMass"}
       \/ /\ running[p].op = "InsertStar"
          /\ ~running[p].made
          /\ running[p].pc \notin {"insertIntoStars", "lookup", "NewTreeMax", "NewTreeInsert"}
    /\ p \in DOMAIN running' => running'[p] # running[p]

C24_OtherTreesUnchanged ==
    /\ [](IndexConstantBelowRoots)
    /\ [][ \A T \in Indexes : \A p \in Callers :
               ActsOn(p, T) => OtherTreesKept(T) /\ CreatedInTree(T) ]_vars

\* the last call was an InsertStar that subdivided the root of its tree, and
\* another tree holds a star and a total mass written by an earlier pass
C24_Witness ==
    /\ last.op = "InsertStar"
    /\ \E c \in called :
           /\ c.sid = star_seq
           /\ \E root \in RootRows(Cur, c.index) :
                  /\ nodes[root].subnode = <<node_seq - 3, node_seq - 2,
                                             node_seq - 1, node_seq>>
                  /\ \A k \in ChildIDs(Cur, root) : nodes[k].timestep = c.index
           /\ \E k \in DOMAIN nodes :
                  /\ nodes[k].timestep # c.index
                  /\ nodes[k].star_id # 0
                  /\ nodes[k].total_mass # 0

====
